---- MODULE Spec2Model ----
(***************************************************************************)
(* A model of the probing engine of clambin/vizroute:                      *)
(*   - ping/queue.go       the response queue (Push / Pop / PopWait)       *)
(*   - ping/ping.go        the ICMP socket (Send / Read / Serve / timeout) *)
(*   - discover.Discover   the TTL-increment discovery loop                *)
(*   - internal/tracer     the tracer (Run / handleResponse / pingers)     *)
(* Each subsystem has its own specification over its own variables.        *)
(***************************************************************************)
EXTENDS Integers, Sequences, FiniteSets, TLC

(***************************************************************************)
(* Bounds of the queue model.                                              *)
(***************************************************************************)
MaxPush == 2
NumConsumers == 2
MaxCalls == 3
MaxHelpers == 4

Consumers == 1..NumConsumers
Helpers == 1..MaxHelpers
Values == 1..MaxPush

VARIABLES
    queue,      \* q.queue: the queued values, head first
    qlock,      \* q.lock: <<>> when free, else the goroutine holding it
    prod,       \* the pushing goroutine: [pc, val]
    nextVal,    \* the next value a producer pushes (the test's atomic seq)
    cons,       \* the goroutines calling Pop / PopWait
    helpers,    \* the goroutines PopWait spawns to wait on q.notEmpty
    popped,     \* log of the values returned by Pop / PopWait, in order
    calls       \* number of Pop / PopWait calls made so far

qvars == <<queue, qlock, prod, nextVal, cons, helpers, popped, calls>>

VARIABLES
    families,             \* the address families whose socket is open (s.v4, s.v6 non-nil)
    outstandingRequests,  \* s.outstandingRequests: seq -> Request
    readers,              \* the readPackets goroutines, one per open family
    now,                  \* the clock, in seconds
    nextSweep,            \* when timeoutTicker fires next
    sentLog,              \* history: the requests recorded by Send, in order
    pushLog,              \* history: every response pushed on s.q, with the time
    nRecv,                \* history: number of datagrams read from the network
    nSend,                \* history: number of Send calls
    droppedForeign,       \* history: a datagram with another Identifier and the
                          \* seq of an outstanding request has been read
    sCtxDone,             \* the context passed to Serve is cancelled
    servePc               \* Serve's position: "running" or "returned"

svars == <<families, outstandingRequests, readers, now, nextSweep, sentLog,
           pushLog, nRecv, nSend, droppedForeign, sCtxDone, servePc>>

VARIABLES
    dArg,        \* Discover: the maxTTL argument
    dDist,       \* the number of hops to the target (the environment)
    dMaxTTL,     \* Discover: the local maxTTL
    dRoute,      \* route.Hops: NilHop, or the address of the hop
    dSeq,        \* Discover: seq
    dTTL,        \* Discover: ttl of the current iteration
    dIter,       \* Discover: the iterations of "for range maxTTL" begun
    dPc,         \* Discover: where the call stands
    dErr,        \* what Discover returned
    dSilent,     \* no reply comes back (a filtered route, or ctx is done)
    dInflight,   \* the TTLs of the probes whose reply no Read has returned
    dProbes,     \* history: the TTLs of the probes sent, in order
    dEchoAt,     \* history: the ttl at which Read returned an EchoReply, or 0
    dLost,       \* history: Reads that timed out although replies come back
    dLate,       \* history: Reads that returned the reply of an older probe
    dPinger,     \* main: ping.Ping has been started
    dFrom        \* the source address of the target's echo replies

dvars == <<dArg, dDist, dMaxTTL, dRoute, dSeq, dTTL, dIter, dPc, dErr,
           dSilent, dInflight, dProbes, dEchoAt, dLost, dLate, dPinger,
           dFrom>>

VARIABLES
    tMaxHops,    \* Run: the maxHops argument
    tDist,       \* the number of hops to the target (the environment)
    hops,        \* t.hops: TTL -> HopStats
    runPc,       \* Run: where the call stands
    runTTL,      \* Run: ttl
    reader,      \* the reader goroutine Run starts: [pc, resp]
    pingerSeq,   \* the hop pingers started, each with its seq
    wire,        \* the replies on their way back to the socket
    tProbes,     \* history: the TTLs of the probes Run has sent, in order
    tPings,      \* history: number of pinger ticks
    tTimeouts,   \* history: number of requests the sweep has timed out
    tCtxDone,    \* the ctx passed to Run has been cancelled
    runErr,      \* what Run returned
    tStarted,    \* history: per hop, the startHopPinger goroutines started
    tResets,     \* history: number of ResetStats calls
    tFailed      \* history: the <<hop, seq>> of the pinger ticks whose Send failed

tvars == <<tMaxHops, tDist, hops, runPc, runTTL, reader, pingerSeq, wire,
           tProbes, tPings, tTimeouts, tCtxDone, runErr, tStarted, tResets,
           tFailed>>

VARIABLES
    lkOwner,     \* per mutex: the goroutine that holds it, or NoOwner
    lkTask,      \* per goroutine: the Lock/Unlock calls left of its current call
    lkNested     \* history: the pairs <<outer, inner>> of a Lock taken while
                 \* another mutex was held

lvars == <<lkOwner, lkTask, lkNested>>

VARIABLES
    teData,      \* the Data of a TimeExceeded message, a sequence of bytes
    teSrc,       \* the family (4 or 6) of the address it came from
    teEnc,       \* history: the id, seq and type written into the inner header
    teRes        \* what parseTimeExceeded returned

tevars == <<teData, teSrc, teEnc, teRes>>

VARIABLES
    hsSent,      \* HopStats.sent of the hop the accessors are called on
    hsReceived,  \* HopStats.received
    hsRTTs,      \* HopStats.RTTs
    hsSamples,   \* history: RTTs as they were before the first accessor call
    hsOut        \* what Loss, AvgRTT and MedianRTT returned

hsvars == <<hsSent, hsReceived, hsRTTs, hsSamples, hsOut>>

VARIABLES
    sdRet,       \* <<>>, or what the last Send was called with and returned
    sdCalls      \* the number of Sends called

sdvars == <<sdRet, sdCalls>>

VARIABLES
    rsHost,      \* the host Resolve is called with
    rsLookup,    \* what net.LookupIP gives for it
    rsFamilies,  \* the families the socket has a connection for
    rsRet        \* <<>>, or what Resolve returned

rsvars == <<rsHost, rsLookup, rsFamilies, rsRet>>

VARIABLES
    nwReq,       \* the families New is asked for, in the order of the options
    nwFail,      \* the families icmp.ListenPacket fails for
    nwRet        \* <<>>, or the socket and the error New returned

nwvars == <<nwReq, nwFail, nwRet>>

VARIABLES
    hpRet        \* what the calls of Tracer.Hops returned, in their order

VARIABLES
    stLock,      \* s.lock: NoSender when free, else the goroutine holding it
    stPc,        \* per goroutine calling Send: where its call stands
    stArg,       \* per goroutine: the ttl its Send was called with
    stSockTTL,   \* the TTL / hop limit set on the sockets, 0: none was set
    stWire,      \* history: the datagrams written, each with the ttl of its
                 \* call and the TTL it left with
    stCalls      \* the number of Sends called

stvars == <<stLock, stPc, stArg, stSockTTL, stWire, stCalls>>

VARIABLES
    phTimeout,   \* pingHop: the timeout argument, in send intervals
    phNow,       \* the clock, in send intervals
    phSeq,       \* pingHop: seq
    phPackets,   \* packets.packets: seq -> the time it was sent
    phSent,      \* the number of hop.Sent() calls
    phOutcomes,  \* history: the hop.Received calls, each with the sequence
                 \* number it was made for
    phWire,      \* the sequence numbers whose echo request is on its way
    phStray,     \* the number of responses read that answer no such request
    phDue,       \* the tickers that have fired and were not yet served
    phPc         \* pingHop: "select", or "returned"

phvars == <<phTimeout, phNow, phSeq, phPackets, phSent, phOutcomes, phWire,
            phStray, phDue, phPc>>

\* the variables of the models of concurrent Sends and of pingHop
gvars == <<stvars, phvars>>

\* the variables of the models of single calls
fvars == <<tevars, hsvars, sdvars, rsvars, nwvars, hpRet, gvars>>

vars == <<qvars, svars, dvars, tvars, lvars, fvars>>

\* the variables outside the queue model / outside the socket model /
\* outside the model of Discover / outside the model of the tracer (which
\* runs on the socket's table and queue)
nonq == <<svars, dvars, tvars, lvars, fvars>>
nons == <<qlock, prod, nextVal, cons, helpers, popped, calls, dvars, tvars,
          lvars, fvars>>
nond == <<qvars, svars, tvars, lvars, fvars>>
nonl == <<qvars, svars, dvars, tvars, fvars>>
nonf == <<qvars, svars, dvars, tvars, lvars, gvars>>
nong == <<qvars, svars, dvars, tvars, lvars, tevars, hsvars, sdvars, rsvars,
          nwvars, hpRet>>
nonst == <<nong, phvars>>
nonph == <<nong, stvars>>
nonte == <<nonf, hsvars, sdvars, rsvars, nwvars, hpRet>>
nonhs == <<nonf, tevars, sdvars, rsvars, nwvars, hpRet>>
nonhp == <<nonf, tevars, hsvars, sdvars, rsvars, nwvars>>
nonsd == <<qvars, readers, now, nextSweep, sentLog, pushLog, nRecv, nSend,
           droppedForeign, sCtxDone, servePc, dvars, tvars, lvars, tevars,
           hsvars, rsvars, nwvars, hpRet, gvars>>
nonrs == <<nonf, tevars, hsvars, sdvars, nwvars, hpRet>>
nonnw == <<nonf, tevars, hsvars, sdvars, rsvars, hpRet>>
nont == <<qlock, prod, nextVal, cons, helpers, popped, calls, families,
          readers, now, nextSweep, sentLog, pushLog, nRecv, nSend,
          droppedForeign, sCtxDone, servePc, dvars, lvars, fvars>>

Free == <<>>

\* The variables of the model of parseTimeExceeded while another model is
\* exercised.
TEParked ==
    /\ teData = <<>>
    /\ teSrc = 0
    /\ teEnc = <<>>
    /\ teRes = <<>>

\* The variables of the models of single calls while another model is
\* exercised.
\* The variables of the model of the accessors of HopStats while another
\* model is exercised.
HSParked ==
    /\ hsSent = 0
    /\ hsReceived = 0
    /\ hsRTTs = <<>>
    /\ hsSamples = <<>>
    /\ hsOut = [loss |-> <<>>, avg |-> <<>>, median |-> <<>>]

\* The variables of the model of single Sends while another model is
\* exercised.
SDParked ==
    /\ sdRet = <<>>
    /\ sdCalls = 0

\* The variables of the model of Resolve while another model is exercised.
RSParked ==
    /\ rsHost = ""
    /\ rsLookup = <<>>
    /\ rsFamilies = {}
    /\ rsRet = <<>>

\* The variables of the model of New while another model is exercised.
NWParked ==
    /\ nwReq = <<>>
    /\ nwFail = {}
    /\ nwRet = <<>>

\* The variable of the model of Hops while another model is exercised.
HPParked == hpRet = <<>>

NoSender == 0

\* The variables of the model of concurrent Sends while another model is
\* exercised.
STParked ==
    /\ stLock = NoSender
    /\ stPc = <<>>
    /\ stArg = <<>>
    /\ stSockTTL = 0
    /\ stWire = <<>>
    /\ stCalls = 0

\* The variables of the model of pingHop while another model is exercised.
PHParked ==
    /\ phTimeout = 0
    /\ phNow = 0
    /\ phSeq = 0
    /\ phPackets = <<>>
    /\ phSent = 0
    /\ phOutcomes = <<>>
    /\ phWire = {}
    /\ phStray = 0
    /\ phDue = {}
    /\ phPc = "parked"

GParked == STParked /\ PHParked

SingleParked ==
    TEParked /\ HSParked /\ SDParked /\ RSParked /\ NWParked /\ HPParked

FParked == SingleParked /\ GParked

\* The variables of the lock model while another model is exercised.
LParked ==
    /\ lkOwner = <<>>
    /\ lkTask = <<>>
    /\ lkNested = {}

\* The socket model's variables while only the queue is exercised.
SParked ==
    /\ families = {}
    /\ outstandingRequests = <<>>
    /\ readers = <<>>
    /\ now = 0
    /\ nextSweep = 0
    /\ sentLog = <<>>
    /\ pushLog = <<>>
    /\ nRecv = 0
    /\ nSend = 0
    /\ droppedForeign = FALSE
    /\ sCtxDone = FALSE
    /\ servePc = "unused"

\* The variables of Discover's model while another model is exercised.
DParked ==
    /\ dArg = 0
    /\ dDist = 0
    /\ dMaxTTL = 0
    /\ dRoute = <<>>
    /\ dSeq = 0
    /\ dTTL = 0
    /\ dIter = 0
    /\ dPc = "parked"
    /\ dErr = "none"
    /\ dSilent = FALSE
    /\ dInflight = {}
    /\ dProbes = <<>>
    /\ dEchoAt = 0
    /\ dLost = 0
    /\ dLate = 0
    /\ dPinger = FALSE
    /\ dFrom = 0

\* The variables of the tracer's model while another model is exercised.
TParked ==
    /\ tMaxHops = 0
    /\ tDist = 0
    /\ hops = <<>>
    /\ runPc = "parked"
    /\ runTTL = 0
    /\ reader = <<>>
    /\ pingerSeq = <<>>
    /\ wire = {}
    /\ tProbes = <<>>
    /\ tPings = 0
    /\ tTimeouts = 0
    /\ tCtxDone = FALSE
    /\ runErr = "none"
    /\ tStarted = <<>>
    /\ tResets = 0
    /\ tFailed = {}

RangeOf(s) == {s[i] : i \in 1..Len(s)}

NoDuplicates(s) == \A i, j \in 1..Len(s) : i # j => s[i] # s[j]

(***************************************************************************)
(* queue.go: newQueue                                                      *)
(***************************************************************************)
QInit ==
    /\ queue = <<>>
    /\ qlock = Free
    /\ prod = [pc |-> "idle", val |-> 0]
    /\ nextVal = 1
    /\ cons = [c \in Consumers |->
                 [pc |-> "idle", mode |-> "none", ctxDone |-> FALSE,
                  helper |-> 0, ret |-> "none", val |-> 0]]
    /\ helpers = [h \in Helpers |-> [pc |-> "unused", owner |-> 0]]
    /\ popped = <<>>
    /\ calls = 0

(***************************************************************************)
(* queue.Push: q.lock.Lock()                                               *)
(***************************************************************************)
PushLock ==
    /\ prod.pc = "idle"
    /\ nextVal <= MaxPush
    /\ qlock = Free
    /\ qlock' = <<"p", 1>>
    /\ prod' = [pc |-> "locked", val |-> nextVal]
    /\ nextVal' = nextVal + 1
    /\ UNCHANGED <<queue, cons, helpers, popped, calls>>
    /\ UNCHANGED nonq

\* sync.Cond.Broadcast: every goroutine blocked in Wait is made runnable
Broadcast(hs) ==
    [h \in Helpers |->
        IF hs[h].pc = "waiting" THEN [hs[h] EXCEPT !.pc = "relock"] ELSE hs[h]]

\* a Push that puts the value at the head
PushAtHead(q, val) == <<val>> \o q

\* queue.Push: q.queue = append(q.queue, val)
PushAtTail(q, val) == Append(q, val)

(***************************************************************************)
(* queue.Push: append, Broadcast, deferred Unlock                          *)
(***************************************************************************)
PushBody ==
    /\ prod.pc = "locked"
    /\ queue' = PushAtTail(queue, prod.val)
    /\ helpers' = Broadcast(helpers)
    /\ qlock' = Free
    /\ prod' = [pc |-> "idle", val |-> 0]
    /\ UNCHANGED <<nextVal, cons, popped, calls>>
    /\ UNCHANGED nonq

(***************************************************************************)
(* A consumer goroutine calls Pop or PopWait (with a fresh context).       *)
(***************************************************************************)
Call(c, m) ==
    /\ cons[c].pc = "idle"
    /\ calls < MaxCalls
    /\ calls' = calls + 1
    /\ cons' = [cons EXCEPT ![c] =
                  [pc |-> "pop", mode |-> m, ctxDone |-> FALSE, helper |-> 0,
                   ret |-> "none", val |-> 0]]
    /\ UNCHANGED <<queue, qlock, prod, nextVal, helpers, popped>>
    /\ UNCHANGED nonq

(***************************************************************************)
(* queue.Pop: q.lock.Lock()                                                *)
(***************************************************************************)
PopLock(c) ==
    /\ cons[c].pc = "pop"
    /\ qlock = Free
    /\ qlock' = <<"c", c>>
    /\ cons' = [cons EXCEPT ![c].pc = "popLocked"]
    /\ UNCHANGED <<queue, prod, nextVal, helpers, popped, calls>>
    /\ UNCHANGED nonq

\* a Pop that returns the head without removing it
PopRestKeepsHead(q) == q

\* the queue Pop leaves behind: q.queue = q.queue[1:]
PopRest(q) == Tail(q)

(***************************************************************************)
(* queue.Pop: the body under the lock, and what the caller does with the   *)
(* result: Pop returns it; PopWait returns a value, or goes on to wait.    *)
(***************************************************************************)
PopBody(c) ==
    /\ cons[c].pc = "popLocked"
    /\ qlock' = Free
    /\ IF Len(queue) = 0
       THEN /\ UNCHANGED <<queue, popped>>
            /\ cons' = [cons EXCEPT ![c] =
                          IF cons[c].mode = "Pop"
                          THEN [@ EXCEPT !.pc = "idle", !.ret = "empty"]
                          ELSE [@ EXCEPT !.pc = "spawn"]]
       ELSE /\ queue' = PopRest(queue)
            /\ popped' = Append(popped, Head(queue))
            /\ cons' = [cons EXCEPT ![c] =
                          [@ EXCEPT !.pc = "idle", !.ret = "value",
                                    !.val = Head(queue)]]
    /\ UNCHANGED <<prod, nextVal, helpers, calls>>
    /\ UNCHANGED nonq

\* the helper goroutine a PopWait iteration starts: the lowest unused slot
FreeHelper == CHOOSE h \in Helpers :
                 /\ helpers[h].pc = "unused"
                 /\ \A g \in Helpers : helpers[g].pc = "unused" => h <= g

(***************************************************************************)
(* queue.PopWait: make(chan), go func(){...}(), enter the select           *)
(***************************************************************************)
PopWaitSpawn(c) ==
    /\ cons[c].pc = "spawn"
    /\ \E h \in Helpers : helpers[h].pc = "unused"
    /\ helpers' = [helpers EXCEPT ![FreeHelper] = [pc |-> "lock", owner |-> c]]
    /\ cons' = [cons EXCEPT ![c].pc = "select", ![c].helper = FreeHelper]
    /\ UNCHANGED <<queue, qlock, prod, nextVal, popped, calls>>
    /\ UNCHANGED nonq

(***************************************************************************)
(* helper goroutine: q.lock.Lock(); q.notEmpty.Wait() -- Wait registers    *)
(* the goroutine on the notify list and releases the lock                  *)
(***************************************************************************)
HelperWait(h) ==
    /\ helpers[h].pc = "lock"
    /\ qlock = Free
    /\ helpers' = [helpers EXCEPT ![h].pc = "waiting"]
    /\ UNCHANGED <<queue, qlock, prod, nextVal, cons, popped, calls>>
    /\ UNCHANGED nonq

(***************************************************************************)
(* helper goroutine: Wait re-acquires the lock after the Broadcast, then   *)
(* q.lock.Unlock()                                                         *)
(***************************************************************************)
HelperRelock(h) ==
    /\ helpers[h].pc = "relock"
    /\ qlock = Free
    /\ helpers' = [helpers EXCEPT ![h].pc = "send"]
    /\ UNCHANGED <<queue, qlock, prod, nextVal, cons, popped, calls>>
    /\ UNCHANGED nonq

(***************************************************************************)
(* helper goroutine: notEmpty <- struct{}{} meets PopWait's                *)
(* case <-notEmpty; PopWait loops back to Pop                              *)
(***************************************************************************)
HelperSend(h) ==
    /\ helpers[h].pc = "send"
    /\ LET c == helpers[h].owner IN
         /\ cons[c].pc = "select"
         /\ cons[c].helper = h
         /\ cons' = [cons EXCEPT ![c].pc = "pop", ![c].helper = 0]
    /\ helpers' = [helpers EXCEPT ![h] = [pc |-> "unused", owner |-> 0]]
    /\ UNCHANGED <<queue, qlock, prod, nextVal, popped, calls>>
    /\ UNCHANGED nonq

(***************************************************************************)
(* The context of a running PopWait call is cancelled or its deadline      *)
(* expires.                                                                *)
(***************************************************************************)
CtxCancel(c) ==
    /\ cons[c].mode = "PopWait"
    /\ cons[c].pc # "idle"
    /\ ~cons[c].ctxDone
    /\ cons' = [cons EXCEPT ![c].ctxDone = TRUE]
    /\ UNCHANGED <<queue, qlock, prod, nextVal, helpers, popped, calls>>
    /\ UNCHANGED nonq

\* a cancelled PopWait that takes the head with it
CancelRestDropsHead(q) == IF Len(q) = 0 THEN q ELSE Tail(q)

\* the queue PopWait leaves behind when it returns ctx.Err()
CancelRest(q) == q

(***************************************************************************)
(* queue.PopWait: case <-ctx.Done(): return value, ctx.Err()               *)
(***************************************************************************)
PopWaitCancel(c) ==
    /\ cons[c].pc = "select"
    /\ cons[c].ctxDone
    /\ queue' = CancelRest(queue)
    /\ cons' = [cons EXCEPT ![c] = [@ EXCEPT !.pc = "idle", !.ret = "err"]]
    /\ UNCHANGED <<qlock, prod, nextVal, helpers, popped, calls>>
    /\ UNCHANGED nonq

QNext ==
    \/ PushLock
    \/ PushBody
    \/ \E c \in Consumers, m \in {"Pop", "PopWait"} : Call(c, m)
    \/ \E c \in Consumers : PopLock(c)
    \/ \E c \in Consumers : PopBody(c)
    \/ \E c \in Consumers : PopWaitSpawn(c)
    \/ \E h \in Helpers : HelperWait(h)
    \/ \E h \in Helpers : HelperRelock(h)
    \/ \E h \in Helpers : HelperSend(h)
    \/ \E c \in Consumers : CtxCancel(c)
    \/ \E c \in Consumers : PopWaitCancel(c)

InitQueue == QInit /\ SParked /\ DParked /\ TParked /\ LParked /\ FParked

SpecQueue == InitQueue /\ [][QNext]_vars


(***************************************************************************)
(* ping/ping.go: the ICMP socket.                                          *)
(***************************************************************************)

\* Bounds of the socket model.
MaxSeq == 2
MaxEvents == 3
MaxTime == 7
MaxSendTime == 1

\* defaultReadTimeout and timeoutInterval, in seconds
defaultReadTimeout == 5
timeoutInterval == 2

\* s.id, and the Identifier of some other process's echoes
SockId == 7
OtherId == SockId + 1

Seqs == 1..MaxSeq

NilIP == ""
V6IPs == {"::1", "::9"}
V4IPs == {"10.0.0.1", "10.0.0.9"}

\* who answers: the target with an echo reply, a router on the way with a
\* time exceeded
Sender(fam, type) ==
    IF fam = 4 THEN (IF type = "TimeExceeded" THEN "10.0.0.1" ELSE "10.0.0.9")
    ELSE (IF type = "TimeExceeded" THEN "::1" ELSE "::9")

\* the (target, ttl) pairs Send is called with
Probes == {<<"10.0.0.9", 1>>, <<"10.0.0.9", 0>>, <<"::9", 1>>, <<NilIP, 1>>}

\* target.To4() != nil / target.To16() != nil
Family(ip) == IF ip \in V4IPs THEN 4 ELSE IF ip \in V6IPs THEN 6 ELSE 0

\* the datagrams a family's socket can receive
Packets(fam) ==
    {[type |-> t, id |-> i, seq |-> sq, from |-> Sender(fam, t)] :
        t \in {"EchoReply", "TimeExceeded", "Other"}, i \in {SockId, OtherId},
        sq \in Seqs}

NoPkt == [type |-> "none", id |-> 0, seq |-> 0, from |-> NilIP]

NoRequest == [Target |-> NilIP, TTL |-> 0, Seq |-> 0, TimeSent |-> 0, uid |-> 0]

NoResponse ==
    [ResponseType |-> "none", From |-> NilIP, Latency |-> 0, Request |-> NoRequest]

\* Response{}: the zero ResponseType is ResponseEchoReply
ZeroResponse ==
    [ResponseType |-> "EchoReply", From |-> NilIP, Latency |-> 0,
     Request |-> NoRequest]

\* Socket.Read: what it returns for what PopWait(subCtx) returned, subCtx
\* being done at the read timeout or when the caller's ctx is cancelled
ReadReturn(ret, val) ==
    IF ret = "err" THEN [resp |-> ZeroResponse, err |-> "ErrTimeout"]
    ELSE [resp |-> val, err |-> "nil"]

\* the permutations of a finite set, as sequences
Orders(S) ==
    {o \in [1..Cardinality(S) -> S] : \A i, j \in 1..Cardinality(S) : i # j => o[i] # o[j]}

\* s.q.Push(resp), with the history of pushes
QPush(q, resp) == Append(q, resp)

LogPush(log, resp, pkt, t) == Append(log, [resp |-> resp, pkt |-> pkt, at |-> t])

(***************************************************************************)
(* ping.New with WithIPv4 / WithIPv6, and go s.Serve(ctx)                  *)
(***************************************************************************)
SInit ==
    /\ families = {4}
    /\ outstandingRequests = <<>>
    /\ readers = [f \in families |->
                    [pc |-> "read", resp |-> NoResponse, pkt |-> NoPkt]]
    /\ now = 0
    /\ nextSweep = timeoutInterval
    /\ sentLog = <<>>
    /\ pushLog = <<>>
    /\ nRecv = 0
    /\ nSend = 0
    /\ droppedForeign = FALSE
    /\ sCtxDone = FALSE
    /\ servePc = "running"

\* what Send returns
SendResult(target, ttl, fault) ==
    IF Family(target) = 0 THEN "unable to determine IP version"
    ELSE IF ttl # 0 /\ fault = "setTTL" THEN "failed to set ttl"
    ELSE IF Family(target) \notin families \/ fault = "write" THEN "write failed"
    ELSE "nil"

\* s.outstandingRequests[seq] = Request{...}
Record(reqs, req) == (req.Seq :> req) @@ reqs

\* a Send that marks the request before it sets the TTL and writes
TableAfterSendMarkedFirst(reqs, req, result) ==
    IF result = "unable to determine IP version" THEN reqs
    ELSE Record(reqs, req)

\* the table when Send returns: the request is marked after the last return
\* of an error
TableAfterSend(reqs, req, result) ==
    IF result = "nil" THEN Record(reqs, req) ELSE reqs

(***************************************************************************)
(* Socket.Send: one critical section under s.lock                          *)
(***************************************************************************)
Send(target, seq, ttl, fault) ==
    /\ nSend + nRecv < MaxEvents
    /\ now <= MaxSendTime
    /\ nSend' = nSend + 1
    /\ LET req == [Target |-> target, TTL |-> ttl, Seq |-> seq,
                   TimeSent |-> now, uid |-> Len(sentLog) + 1]
           result == SendResult(target, ttl, fault)
       IN /\ outstandingRequests' =
                TableAfterSend(outstandingRequests, req, result)
          /\ sentLog' = IF result = "nil" THEN Append(sentLog, req)
                        ELSE sentLog
    /\ UNCHANGED <<families, readers, now, nextSweep, pushLog, nRecv, queue>>
    /\ UNCHANGED droppedForeign
    /\ UNCHANGED <<sCtxDone, servePc>>
    /\ UNCHANGED nons

\* a readPackets loop that never looks at the context
AtSelectIgnoresCtx(done) == "read"

\* readPackets, top of the loop: case <-ctx.Done(): return / default: read on
AtSelect(done) == IF done THEN "returned" ELSE "read"

\* a readPacket that does not compare the Identifier with s.id
ReadVerdictAnyId(pkt, reqs) ==
    IF pkt.type = "Other" THEN "unknown response type"
    ELSE IF pkt.seq \notin DOMAIN reqs THEN "no request found"
    ELSE "ok"

\* readPacket's verdict on a datagram: "ok", or the error it returns
ReadVerdict(pkt, reqs) ==
    IF pkt.type = "Other" THEN "unknown response type"
    ELSE IF pkt.id # SockId THEN "errIncorrectID"
    ELSE IF pkt.seq \notin DOMAIN reqs THEN "no request found"
    ELSE "ok"

(***************************************************************************)
(* Socket.readPackets / readPacket: read a datagram, parse it, check the   *)
(* id, look the request up under s.lock; then block in ch <- response.     *)
(* A reader at "read" has passed the select with the context live; after   *)
(* a datagram it drops, it is back at the select and returns if the        *)
(* context is done.                                                        *)
(***************************************************************************)
ReadPacket(f, pkt) ==
    /\ f \in families
    /\ readers[f].pc = "read"
    /\ nSend + nRecv < MaxEvents
    /\ nRecv' = nRecv + 1
    /\ IF ReadVerdict(pkt, outstandingRequests) = "ok"
       THEN LET req == outstandingRequests[pkt.seq]
                resp == [ResponseType |-> pkt.type, From |-> pkt.from,
                         Latency |-> now - req.TimeSent, Request |-> req]
            IN readers' = [readers EXCEPT ![f] =
                                [pc |-> "send", resp |-> resp, pkt |-> pkt]]
       ELSE readers' = [readers EXCEPT ![f].pc = AtSelect(sCtxDone)]
    /\ droppedForeign' =
          (droppedForeign \/ (pkt.type # "Other" /\ pkt.id # SockId
                                 /\ pkt.seq \in DOMAIN outstandingRequests))
    /\ UNCHANGED <<families, outstandingRequests, now, nextSweep, sentLog,
                   pushLog, nSend, queue>>
    /\ UNCHANGED <<sCtxDone, servePc>>
    /\ UNCHANGED nons

\* the table Serve leaves behind when it queues a reply: the entry stays
AfterReply(reqs, seq) == reqs

\* a Serve that queues whatever the readers hand it
StillOutstandingUnchecked(reqs, seq) == TRUE

\* Serve: _, ok := s.outstandingRequests[resp.Request.Seq]
StillOutstanding(reqs, seq) == seq \in DOMAIN reqs

(***************************************************************************)
(* Socket.Serve, case resp := <-ch                                         *)
(***************************************************************************)
ServeRecv(f) ==
    /\ f \in families
    /\ servePc = "running"
    /\ readers[f].pc = "send"
    /\ LET resp == readers[f].resp IN
         IF ~StillOutstanding(outstandingRequests, resp.Request.Seq)
         THEN UNCHANGED <<queue, pushLog, outstandingRequests>>
         ELSE /\ queue' = QPush(queue, resp)
              /\ pushLog' = LogPush(pushLog, resp, readers[f].pkt, now)
              /\ outstandingRequests' =
                    AfterReply(outstandingRequests, resp.Request.Seq)
    /\ readers' = [readers EXCEPT ![f] =
                      [pc |-> AtSelect(sCtxDone), resp |-> NoResponse,
                       pkt |-> NoPkt]]
    /\ UNCHANGED <<families, now, nextSweep, sentLog, nRecv, nSend>>
    /\ UNCHANGED droppedForeign
    /\ UNCHANGED <<sCtxDone, servePc>>
    /\ UNCHANGED nons

\* a sweep that also takes the requests whose age is the timeout exactly
ExpiredAtTimeout(req, t) == t - req.TimeSent >= defaultReadTimeout

\* time.Since(req.TimeSent) > s.Timeout
Expired(req, t) == t - req.TimeSent > defaultReadTimeout

TimeoutResponse(req) ==
    [ResponseType |-> "Timeout", From |-> NilIP, Latency |-> 0, Request |-> req]

RECURSIVE PushTimeouts(_, _, _)
PushTimeouts(q, reqs, order) ==
    IF order = <<>> THEN q
    ELSE PushTimeouts(QPush(q, TimeoutResponse(reqs[Head(order)])), reqs, Tail(order))

RECURSIVE LogTimeouts(_, _, _, _)
LogTimeouts(log, reqs, order, t) ==
    IF order = <<>> THEN log
    ELSE LogTimeouts(LogPush(log, TimeoutResponse(reqs[Head(order)]), NoPkt, t),
                     reqs, Tail(order), t)

(***************************************************************************)
(* Socket.Serve, case <-timeoutTicker.C: Socket.timeout                    *)
(* (the map is ranged over in an unspecified order)                        *)
(***************************************************************************)
ServeTimeout ==
    /\ families # {}
    /\ servePc = "running"
    /\ now = nextSweep
    /\ nextSweep' = nextSweep + timeoutInterval
    /\ LET expired == {sq \in DOMAIN outstandingRequests :
                          Expired(outstandingRequests[sq], now)}
       IN /\ \E order \in Orders(expired) :
                /\ queue' = PushTimeouts(queue, outstandingRequests, order)
                /\ pushLog' = LogTimeouts(pushLog, outstandingRequests, order, now)
          /\ outstandingRequests' =
                [sq \in DOMAIN outstandingRequests \ expired |->
                    outstandingRequests[sq]]
    /\ UNCHANGED <<families, readers, now, sentLog, nRecv, nSend>>
    /\ UNCHANGED droppedForeign
    /\ UNCHANGED <<sCtxDone, servePc>>
    /\ UNCHANGED nons

(***************************************************************************)
(* Socket.Read: PopWait returns the head of the queue. (When it returns    *)
(* the deadline's error instead, Read returns ErrTimeout and no state      *)
(* changes.)                                                               *)
(***************************************************************************)
ReadValue ==
    /\ families # {}
    /\ Len(queue) > 0
    /\ queue' = PopRest(queue)
    /\ UNCHANGED <<families, outstandingRequests, readers, now, nextSweep,
                   sentLog, pushLog, nRecv, nSend>>
    /\ UNCHANGED droppedForeign
    /\ UNCHANGED <<sCtxDone, servePc>>
    /\ UNCHANGED nons

(***************************************************************************)
(* A second passes. The ticker's sweep runs at its time, as long as Serve  *)
(* runs.                                                                   *)
(***************************************************************************)
Tick ==
    /\ families # {}
    /\ now < MaxTime
    /\ now < nextSweep \/ servePc = "returned"
    /\ now' = now + 1
    /\ UNCHANGED <<families, outstandingRequests, readers, nextSweep, sentLog,
                   pushLog, nRecv, nSend, queue>>
    /\ UNCHANGED droppedForeign
    /\ UNCHANGED <<sCtxDone, servePc>>
    /\ UNCHANGED nons

SNext ==
    \/ \E p \in Probes, sq \in Seqs, fault \in {"none", "setTTL", "write"} :
          Send(p[1], sq, p[2], fault)
    \/ \E f \in {4, 6} : \E pkt \in Packets(f) : ReadPacket(f, pkt)
    \/ \E f \in {4, 6} : ServeRecv(f)
    \/ ServeTimeout
    \/ ReadValue
    \/ Tick

InitSocket == SInit /\ QInit /\ DParked /\ TParked /\ LParked /\ FParked

SpecSocket == InitSocket /\ [][SNext]_vars

(***************************************************************************)
(* The caller cancels the context it passed to Serve (like its Sends, in   *)
(* the first MaxSendTime seconds).                                         *)
(***************************************************************************)
SCancel ==
    /\ families # {}
    /\ ~sCtxDone
    /\ now <= MaxSendTime
    /\ sCtxDone' = TRUE
    /\ UNCHANGED <<families, outstandingRequests, readers, now, nextSweep,
                   sentLog, pushLog, nRecv, nSend, droppedForeign, servePc,
                   queue>>
    /\ UNCHANGED nons

(***************************************************************************)
(* Socket.Serve, case <-ctx.Done(): return                                 *)
(***************************************************************************)
ServeReturn ==
    /\ servePc = "running"
    /\ sCtxDone
    /\ servePc' = "returned"
    /\ UNCHANGED <<families, outstandingRequests, readers, now, nextSweep,
                   sentLog, pushLog, nRecv, nSend, droppedForeign, sCtxDone,
                   queue>>
    /\ UNCHANGED nons

(***************************************************************************)
(* Socket.readPackets: readPacket ends on its read deadline, and the       *)
(* select finds the context done: return                                   *)
(***************************************************************************)
ReaderReturn(f) ==
    /\ f \in families
    /\ readers[f].pc = "read"
    /\ sCtxDone
    /\ readers' = [readers EXCEPT ![f].pc = AtSelect(sCtxDone)]
    /\ UNCHANGED <<families, outstandingRequests, now, nextSweep, sentLog,
                   pushLog, nRecv, nSend, droppedForeign, sCtxDone, servePc,
                   queue>>
    /\ UNCHANGED nons

\* the socket, with the cancellation of Serve's context
ServeNext ==
    \/ SNext
    \/ SCancel
    \/ ServeReturn
    \/ \E f \in {4, 6} : ReaderReturn(f)

SpecServe == InitSocket /\ [][ServeNext]_vars

\* every goroutine that can run is scheduled: Serve's select, and the
\* readers, whose ReadFrom has a deadline
FairSpecServe ==
    /\ SpecServe
    /\ WF_vars(ServeReturn)
    /\ \A f \in {4, 6} : WF_vars(ReaderReturn(f)) /\ WF_vars(ServeRecv(f))

(***************************************************************************)
(* discover.Discover: the TTL-increment discovery loop, and the main that  *)
(* calls it. Addresses are numbers here: the node k hops away has address  *)
(* k, so the target's address is dDist.                                    *)
(***************************************************************************)

\* Bounds of the model of Discover.
MaxTTLArg == 3
MaxDist == 3
MaxLost == 1
MaxLate == 1
MaxSlowTTL == 3

defaultMaxTTL == 64

\* maxTTL and ttl are uint8
MaxUint8 == 255

\* a target no TTL reaches
Unreachable == MaxUint8 + 1

NilHop == 0

\* what the network answers to an echo request for target sent with TTL t:
\* the target answers when the request reaches it, else the router where
\* the TTL runs out
NetReply(target, t) ==
    IF t >= target THEN [MsgType |-> "EchoReply", From |-> target]
    ELSE [MsgType |-> "TimeExceeded", From |-> t]

\* another address of the target: a host with several interfaces may answer
\* an echo request from an address it was not sent to
OtherAddress == MaxUint8 + 2

\* the response Read returns for the probe with TTL t
Reply(t) ==
    IF NetReply(dDist, t).MsgType = "EchoReply"
    THEN [NetReply(dDist, t) EXCEPT !.From = dFrom]
    ELSE NetReply(dDist, t)

\* Path.AddHop
AddHop(route) == Append(route, NilHop)

\* Path.SetHop
SetHop(route, idx, hop) == [route EXCEPT ![idx + 1] = hop]

\* a Discover that loops maxTTL times, whatever maxTTL is
EffectiveMaxTTLNoDefault(m) == m

\* if maxTTL == 0 { maxTTL = defaultMaxTTL }
EffectiveMaxTTL(m) == IF m = 0 THEN defaultMaxTTL ELSE m

(***************************************************************************)
(* main: var path discover.Path; go func() { discover.Discover(ctx, &path, *)
(* addr, s, maxHops, l) ... }                                              *)
(***************************************************************************)
DInit ==
    /\ dArg \in 0..MaxTTLArg
    /\ dDist \in (1..MaxDist) \cup {Unreachable}
    /\ dMaxTTL = dArg
    /\ dRoute = <<>>
    /\ dSeq = 0
    /\ dTTL = 0
    /\ dIter = 0
    /\ dPc = "start"
    /\ dErr = "none"
    /\ dSilent \in BOOLEAN
    /\ dInflight = {}
    /\ dProbes = <<>>
    /\ dEchoAt = 0
    /\ dLost = 0
    /\ dLate = 0
    /\ dPinger = FALSE
    /\ dFrom \in {dDist, OtherAddress}

(***************************************************************************)
(* Discover: the default for maxTTL, var seq                               *)
(***************************************************************************)
DStart ==
    /\ dPc = "start"
    /\ dMaxTTL' = EffectiveMaxTTL(dMaxTTL)
    /\ dSeq' = 0
    /\ dPc' = "loop"
    /\ UNCHANGED <<dArg, dDist, dRoute, dTTL, dIter, dErr, dSilent,
                   dInflight, dProbes, dEchoAt, dLost, dLate, dPinger>>
    /\ UNCHANGED dFrom
    /\ UNCHANGED nond

(***************************************************************************)
(* Discover: the next iteration of "for range maxTTL": route.AddHop(),     *)
(* ttl := uint8(route.Len()), s.Ping(addr, seq, ttl, payload)              *)
(***************************************************************************)
DPing(fails) ==
    /\ dPc = "loop"
    /\ dIter < dMaxTTL
    /\ dIter' = dIter + 1
    /\ dRoute' = AddHop(dRoute)
    /\ dTTL' = Len(dRoute') % (MaxUint8 + 1)
    /\ IF fails
       THEN /\ dErr' = "ping"
            /\ dPc' = "done"
            /\ UNCHANGED <<dInflight, dProbes>>
       ELSE /\ dInflight' = dInflight \cup {dTTL'}
            /\ dProbes' = Append(dProbes, dTTL')
            /\ dPc' = "read"
            /\ UNCHANGED dErr
    /\ UNCHANGED <<dArg, dDist, dMaxTTL, dSeq, dSilent, dEchoAt, dLost,
                   dLate, dPinger>>
    /\ UNCHANGED dFrom
    /\ UNCHANGED nond

(***************************************************************************)
(* Discover: s.Read(ctx) returns an error (the read timeout, or ctx is     *)
(* done); seq++. On a route that answers, this is bounded: at most MaxLost *)
(* Reads time out, all of them on probes with a TTL up to MaxSlowTTL.      *)
(***************************************************************************)
DReadErr ==
    /\ dPc = "read"
    /\ dSilent \/ (dLost < MaxLost /\ dTTL <= MaxSlowTTL)
    /\ dLost' = IF dSilent THEN dLost ELSE dLost + 1
    /\ dSeq' = dSeq + 1
    /\ dPc' = "loop"
    /\ UNCHANGED <<dArg, dDist, dMaxTTL, dRoute, dTTL, dIter, dErr, dSilent,
                   dInflight, dProbes, dEchoAt, dLate, dPinger>>
    /\ UNCHANGED dFrom
    /\ UNCHANGED nond

(***************************************************************************)
(* Discover: s.Read(ctx) returns a response, the reply to the probe with   *)
(* TTL t: route.SetHop(int(ttl-1), ...); return nil on an EchoReply, else  *)
(* seq++                                                                   *)
(***************************************************************************)
DReadReply(t) ==
    /\ dPc = "read"
    /\ ~dSilent
    /\ t \in dInflight
    /\ t = dTTL \/ dLate < MaxLate
    /\ dLate' = IF t = dTTL THEN dLate ELSE dLate + 1
    /\ dInflight' = dInflight \ {t}
    /\ dRoute' = SetHop(dRoute, dTTL - 1, Reply(t).From)
    /\ IF Reply(t).MsgType = "EchoReply"
       THEN /\ dErr' = "nil"
            /\ dPc' = "done"
            /\ dEchoAt' = dTTL
            /\ UNCHANGED dSeq
       ELSE /\ dSeq' = dSeq + 1
            /\ dPc' = "loop"
            /\ UNCHANGED <<dErr, dEchoAt>>
    /\ UNCHANGED <<dArg, dDist, dMaxTTL, dTTL, dIter, dSilent, dProbes,
                   dLost, dPinger>>
    /\ UNCHANGED dFrom
    /\ UNCHANGED nond

(***************************************************************************)
(* Discover: the loop is over: return "no path found: max TTL exceeded"    *)
(***************************************************************************)
DLoopEnd ==
    /\ dPc = "loop"
    /\ dIter >= dMaxTTL
    /\ dErr' = "maxttl"
    /\ dPc' = "done"
    /\ UNCHANGED <<dArg, dDist, dMaxTTL, dRoute, dSeq, dTTL, dIter, dSilent,
                   dInflight, dProbes, dEchoAt, dLost, dLate, dPinger>>
    /\ UNCHANGED dFrom
    /\ UNCHANGED nond

(***************************************************************************)
(* main: if err = discover.Discover(...); err == nil { ping.Ping(...) }    *)
(***************************************************************************)
DMain ==
    /\ dPc = "done"
    /\ dPc' = "returned"
    /\ dPinger' = (dErr = "nil")
    /\ UNCHANGED <<dArg, dDist, dMaxTTL, dRoute, dSeq, dTTL, dIter, dErr,
                   dSilent, dInflight, dProbes, dEchoAt, dLost, dLate>>
    /\ UNCHANGED dFrom
    /\ UNCHANGED nond

DNext ==
    \/ DStart
    \/ \E fails \in BOOLEAN : DPing(fails)
    \/ DReadErr
    \/ \E t \in 1..MaxUint8 : DReadReply(t)
    \/ DLoopEnd
    \/ DMain

InitDiscover == DInit /\ QInit /\ SParked /\ TParked /\ LParked /\ FParked

SpecDiscover == InitDiscover /\ [][DNext]_vars

(***************************************************************************)
(* internal/tracer: Tracer.Run, its reader goroutine, handleResponse and   *)
(* the hop pingers, on top of the socket's table of outstanding requests   *)
(* and its response queue. Time is left out: a reply may take any time,    *)
(* Run's one-second sleep and the pingers' ticks may fall anywhere between *)
(* the other steps.                                                        *)
(***************************************************************************)

\* Bounds of the tracer model.
MaxHopsArg == 2
MaxPings == 1
MaxTimeouts == 1
MaxResets == 1

\* the TTL of a pinger's echo request
pingTTL == 64

\* pingTarget: seq := 1
probeSeq == 1

NewHopStats(ttl) ==
    [TTL |-> ttl % (MaxUint8 + 1), ip |-> NilHop, addr |-> <<>>, sent |-> 0, received |-> 0,
     RTTs |-> <<>>, sentTimes |-> {}, hasPinger |-> FALSE]

\* HopStats.recordSend
recordSend(h, sq) ==
    [h EXCEPT !.sent = @ + 1, !.sentTimes = @ \cup {sq}]

\* HopStats.recordRecv: the RTT sample is written as the seq it belongs to
recordRecv(h, sq) ==
    [h EXCEPT !.received = @ + 1,
              !.RTTs = IF sq \in h.sentTimes THEN Append(@, sq) ELSE @,
              !.sentTimes = @ \ {sq}]

\* net.LookupAddr: the resolver has a name for every second address; the
\* empty string is <<>>, the name of ip is <<ip>>
LookupAddr(ip) == IF ip % 2 = 1 THEN <<ip>> ELSE <<>>

\* HopStats.recordAddr
recordAddr(h, ip) == [h EXCEPT !.ip = ip, !.addr = LookupAddr(ip)]

\* a Reset that clears the samples only
ResetKeepsCounters(h) == [h EXCEPT !.RTTs = <<>>, !.sentTimes = {}]

\* HopStats.Reset
Reset(h) ==
    [h EXCEPT !.sent = 0, !.received = 0, !.RTTs = <<>>, !.sentTimes = {}]

MaxOf(S) == CHOOSE x \in S : \A y \in S : y <= x

\* Tracer.lastHop, and lastHop != nil && lastHop.IP().Equal(dest)
LastHopIs(hs, dest) ==
    /\ DOMAIN hs # {}
    /\ hs[MaxOf(DOMAIN hs)].ip = dest

\* the Request Send records
SockRequest(target, sq, ttl) ==
    [Target |-> target, TTL |-> ttl, Seq |-> sq, TimeSent |-> 0, uid |-> 0]

\* the reply to an echo request, as a datagram with the socket's Identifier
ReplyPkt(target, sq, ttl) ==
    [type |-> NetReply(target, ttl).MsgType, id |-> SockId, seq |-> sq,
     from |-> NetReply(target, ttl).From]

NoTracerResponse ==
    [ResponseType |-> "none", From |-> NilHop, Latency |-> 0,
     Request |-> SockRequest(NilHop, 0, 0)]

(***************************************************************************)
(* Tracer.Run up to the loop: Resolve, t.hops = make(...), go func() {     *)
(* reader }()                                                              *)
(***************************************************************************)
TInit ==
    /\ tMaxHops \in 1..MaxHopsArg
    /\ tDist \in 1..MaxDist
    /\ hops = <<>>
    /\ runPc = "check"
    /\ runTTL = 1
    /\ reader = [pc |-> "read", resp |-> NoTracerResponse]
    /\ pingerSeq = <<>>
    /\ wire = {}
    /\ tProbes = <<>>
    /\ tPings = 0
    /\ tTimeouts = 0
    /\ tCtxDone = FALSE
    /\ runErr = "none"
    /\ tStarted = <<>>
    /\ tResets = 0
    /\ tFailed = {}

(***************************************************************************)
(* Run: ttl <= maxHops, and the check of the last hop against dest         *)
(***************************************************************************)
RunCheck ==
    /\ runPc = "check"
    /\ runPc' = IF runTTL > tMaxHops \/ LastHopIs(hops, tDist)
                THEN "wait" ELSE "insert"
    /\ UNCHANGED <<tMaxHops, tDist, hops, runTTL, reader, pingerSeq, wire,
                   tProbes, tPings, tTimeouts>>
    /\ UNCHANGED <<queue, outstandingRequests>>
    /\ UNCHANGED <<tCtxDone, runErr, tStarted, tResets>>
    /\ UNCHANGED tFailed
    /\ UNCHANGED nont

\* a pingTarget that keeps the new hop only
InsertHopAlone(hs, ttl) == (ttl :> recordSend(NewHopStats(ttl), probeSeq))

\* pingTarget: h := HopStats{...}; h.recordSend(seq); t.hops[ttl] = &h
InsertHop(hs, ttl) == (ttl :> recordSend(NewHopStats(ttl), probeSeq)) @@ hs

(***************************************************************************)
(* pingTarget: a new HopStats with the send recorded, t.hops[ttl] = &h     *)
(***************************************************************************)
RunInsert ==
    /\ runPc = "insert"
    /\ hops' = InsertHop(hops, runTTL)
    /\ tStarted' = (runTTL :> 0) @@ tStarted
    /\ runPc' = "send"
    /\ UNCHANGED <<tMaxHops, tDist, runTTL, reader, pingerSeq, wire,
                   tProbes, tPings, tTimeouts>>
    /\ UNCHANGED <<queue, outstandingRequests>>
    /\ UNCHANGED <<tCtxDone, runErr, tResets>>
    /\ UNCHANGED tFailed
    /\ UNCHANGED nont

(***************************************************************************)
(* pingTarget: t.sock.Send(dest, seq, ttl, "probe"); Run returns its       *)
(* error, else sleeps a second and goes on with ttl++                      *)
(***************************************************************************)
RunSend(fails) ==
    /\ runPc = "send"
    /\ IF fails
       THEN /\ runPc' = "returned"
            /\ runErr' = "send"
            /\ UNCHANGED <<runTTL, outstandingRequests, wire, tProbes>>
       ELSE /\ outstandingRequests' =
                  Record(outstandingRequests, SockRequest(tDist, probeSeq, runTTL))
            /\ wire' = wire \cup {ReplyPkt(tDist, probeSeq, runTTL)}
            /\ tProbes' = Append(tProbes, runTTL)
            /\ runTTL' = runTTL + 1
            /\ runPc' = "check"
            /\ UNCHANGED runErr
    /\ UNCHANGED <<tMaxHops, tDist, hops, reader, pingerSeq, tPings, tTimeouts>>
    /\ UNCHANGED queue
    /\ UNCHANGED <<tCtxDone, tStarted, tResets>>
    /\ UNCHANGED tFailed
    /\ UNCHANGED nont

(***************************************************************************)
(* The socket reads a reply: readPacket looks the request up by seq, Serve *)
(* queues the response if the table holds the seq.                         *)
(***************************************************************************)
SockDeliver(pkt) ==
    /\ pkt \in wire
    /\ wire' = wire \ {pkt}
    /\ IF ReadVerdict(pkt, outstandingRequests) = "ok"
          /\ StillOutstanding(outstandingRequests, pkt.seq)
       THEN /\ queue' = QPush(queue,
                   [ResponseType |-> pkt.type, From |-> pkt.from,
                    Latency |-> 0, Request |-> outstandingRequests[pkt.seq]])
            /\ outstandingRequests' = AfterReply(outstandingRequests, pkt.seq)
       ELSE UNCHANGED <<queue, outstandingRequests>>
    /\ UNCHANGED <<tMaxHops, tDist, hops, runPc, runTTL, reader, pingerSeq,
                   tProbes, tPings, tTimeouts>>
    /\ UNCHANGED <<tCtxDone, runErr, tStarted, tResets>>
    /\ UNCHANGED tFailed
    /\ UNCHANGED nont

(***************************************************************************)
(* Socket.timeout: the sweep times a request out                           *)
(***************************************************************************)
SockTimeout(sq) ==
    /\ sq \in DOMAIN outstandingRequests
    /\ tTimeouts < MaxTimeouts
    /\ tTimeouts' = tTimeouts + 1
    /\ queue' = QPush(queue,
          [TimeoutResponse(outstandingRequests[sq]) EXCEPT !.From = NilHop])
    /\ outstandingRequests' =
          [x \in DOMAIN outstandingRequests \ {sq} |-> outstandingRequests[x]]
    /\ UNCHANGED <<tMaxHops, tDist, hops, runPc, runTTL, reader, pingerSeq,
                   wire, tProbes, tPings>>
    /\ UNCHANGED <<tCtxDone, runErr, tStarted, tResets>>
    /\ UNCHANGED tFailed
    /\ UNCHANGED nont

(***************************************************************************)
(* reader goroutine: t.sock.Read(ctx) returns a response                   *)
(***************************************************************************)
ReaderRead ==
    /\ reader.pc = "read"
    /\ Len(queue) > 0
    /\ reader' = [pc |-> "handle", resp |-> Head(queue)]
    /\ queue' = PopRest(queue)
    /\ UNCHANGED <<tMaxHops, tDist, hops, runPc, runTTL, pingerSeq, wire,
                   tProbes, tPings, tTimeouts>>
    /\ UNCHANGED outstandingRequests
    /\ UNCHANGED <<tCtxDone, runErr, tStarted, tResets>>
    /\ UNCHANGED tFailed
    /\ UNCHANGED nont

(***************************************************************************)
(* reader goroutine: t.sock.Read(ctx) returns ErrTimeout, after the read   *)
(* timeout without a response or because ctx is done: the goroutine        *)
(* returns                                                                 *)
(***************************************************************************)
ReaderTimeout ==
    /\ reader.pc = "read"
    /\ Len(queue) = 0
    /\ reader' = [reader EXCEPT !.pc = "exited"]
    /\ UNCHANGED <<tMaxHops, tDist, hops, runPc, runTTL, pingerSeq, wire,
                   tProbes, tPings, tTimeouts>>
    /\ UNCHANGED <<queue, outstandingRequests>>
    /\ UNCHANGED <<tCtxDone, runErr, tStarted, tResets>>
    /\ UNCHANGED tFailed
    /\ UNCHANGED nont

\* a handleResponse without the case for ResponseTimeout
HopsForAnyKind(resp) ==
    IF resp.Request.TTL \in DOMAIN hops THEN {resp.Request.TTL}
    ELSE IF resp.ResponseType = "EchoReply"
         THEN {h \in DOMAIN hops : hops[h].ip = resp.From}
    ELSE {}

\* handleResponse: the hops the response can be booked on (the range over
\* t.hops takes the first hop with the address, in map order)
HopsFor(resp) ==
    IF resp.ResponseType = "Timeout" THEN {}
    ELSE IF resp.Request.TTL \in DOMAIN hops THEN {resp.Request.TTL}
    ELSE IF resp.ResponseType = "EchoReply"
         THEN {h \in DOMAIN hops : hops[h].ip = resp.From}
    ELSE {}

\* a handleResponse that starts a pinger on every response
NeedsPingerAlways(h) == TRUE

\* handleResponse: if !hop.hasPinger
NeedsPinger(h) == ~h.hasPinger

\* handleResponse: the hop after recordAddr (when found by TTL), recordRecv
\* and hasPinger = true
Booked(h, resp) ==
    LET found == IF resp.Request.TTL \in DOMAIN hops
                 THEN recordAddr(hops[h], resp.From) ELSE hops[h]
    IN [recordRecv(found, resp.Request.Seq) EXCEPT !.hasPinger = TRUE]

(***************************************************************************)
(* Tracer.handleResponse, under t.mu, with go t.startHopPinger(ctx, hop)   *)
(***************************************************************************)
HandleResponse ==
    /\ reader.pc = "handle"
    /\ reader' = [pc |-> "read", resp |-> NoTracerResponse]
    /\ IF HopsFor(reader.resp) = {}
       THEN UNCHANGED <<hops, pingerSeq, tStarted>>
       ELSE \E h \in HopsFor(reader.resp) :
               /\ hops' = [hops EXCEPT ![h] = Booked(h, reader.resp)]
               /\ IF NeedsPinger(hops[h])
                  THEN /\ pingerSeq' = (h :> 0) @@ pingerSeq
                       /\ tStarted' = [tStarted EXCEPT ![h] = @ + 1]
                  ELSE UNCHANGED <<pingerSeq, tStarted>>
    /\ UNCHANGED <<tMaxHops, tDist, runPc, runTTL, wire, tProbes, tPings,
                   tTimeouts>>
    /\ UNCHANGED <<queue, outstandingRequests>>
    /\ UNCHANGED <<tCtxDone, runErr, tResets>>
    /\ UNCHANGED tFailed
    /\ UNCHANGED nont


\* a pinger that returns when its Send fails
PingerTickStopsOnError(h, fails) ==
    /\ h \in DOMAIN pingerSeq
    /\ ~tCtxDone
    /\ tPings < MaxPings
    /\ tPings' = tPings + 1
    /\ LET sq == pingerSeq[h] + 1 IN
         /\ pingerSeq' =
               IF fails THEN [k \in DOMAIN pingerSeq \ {h} |-> pingerSeq[k]]
               ELSE [pingerSeq EXCEPT ![h] = sq]
         /\ hops' = [hops EXCEPT ![h] = recordSend(@, sq)]
         /\ IF fails
            THEN UNCHANGED <<outstandingRequests, wire>>
            ELSE /\ outstandingRequests' =
                       Record(outstandingRequests,
                              SockRequest(hops[h].ip, sq, pingTTL))
                 /\ wire' = wire \cup {ReplyPkt(hops[h].ip, sq, pingTTL)}
    /\ UNCHANGED <<tMaxHops, tDist, runPc, runTTL, reader, tProbes, tTimeouts>>
    /\ tFailed' = IF fails THEN tFailed \cup {<<h, pingerSeq[h] + 1>>}
                  ELSE tFailed
    /\ UNCHANGED queue
    /\ UNCHANGED <<tCtxDone, runErr, tStarted, tResets>>
    /\ UNCHANGED nont

(***************************************************************************)
(* startHopPinger, case <-ticker.C: seq++, hop.recordSend(seq),            *)
(* t.sock.Send(hop.IP(), seq, 64, "ping") whose error is dropped. Once ctx *)
(* is done the select takes case <-ctx.Done() and the pinger returns.      *)
(***************************************************************************)
PingerTick(h, fails) ==
    /\ h \in DOMAIN pingerSeq
    /\ ~tCtxDone
    /\ tPings < MaxPings
    /\ tPings' = tPings + 1
    /\ LET sq == pingerSeq[h] + 1 IN
         /\ pingerSeq' = [pingerSeq EXCEPT ![h] = sq]
         /\ hops' = [hops EXCEPT ![h] = recordSend(@, sq)]
         /\ IF fails
            THEN UNCHANGED <<outstandingRequests, wire>>
            ELSE /\ outstandingRequests' =
                       Record(outstandingRequests,
                              SockRequest(hops[h].ip, sq, pingTTL))
                 /\ wire' = wire \cup {ReplyPkt(hops[h].ip, sq, pingTTL)}
    /\ UNCHANGED <<tMaxHops, tDist, runPc, runTTL, reader, tProbes, tTimeouts>>
    /\ tFailed' = IF fails THEN tFailed \cup {<<h, pingerSeq[h] + 1>>}
                  ELSE tFailed
    /\ UNCHANGED queue
    /\ UNCHANGED <<tCtxDone, runErr, tStarted, tResets>>
    /\ UNCHANGED nont

(***************************************************************************)
(* Run: <-ctx.Done(); return nil                                           *)
(***************************************************************************)
RunReturn ==
    /\ runPc = "wait"
    /\ tCtxDone
    /\ runPc' = "returned"
    /\ runErr' = "nil"
    /\ UNCHANGED <<tMaxHops, tDist, hops, runTTL, reader, pingerSeq, wire,
                   tProbes, tPings, tTimeouts, tCtxDone, tStarted, tResets>>
    /\ UNCHANGED <<queue, outstandingRequests>>
    /\ UNCHANGED tFailed
    /\ UNCHANGED nont

\* a ResetStats that puts a fresh HopStats in every slot
ResetStatsRenewsHops ==
    /\ tResets < MaxResets
    /\ runPc # "returned"
    /\ tResets' = tResets + 1
    /\ hops' = [h \in DOMAIN hops |-> NewHopStats(h)]
    /\ UNCHANGED <<tMaxHops, tDist, runPc, runTTL, reader, pingerSeq, wire,
                   tProbes, tPings, tTimeouts, tCtxDone, runErr, tStarted>>
    /\ UNCHANGED <<queue, outstandingRequests>>
    /\ UNCHANGED tFailed
    /\ UNCHANGED nont

(***************************************************************************)
(* Tracer.ResetStats (the UI's reset key), under t.mu                      *)
(***************************************************************************)
ResetStats ==
    /\ tResets < MaxResets
    /\ runPc # "returned"
    /\ tResets' = tResets + 1
    /\ hops' = [h \in DOMAIN hops |-> Reset(hops[h])]
    /\ UNCHANGED <<tMaxHops, tDist, runPc, runTTL, reader, pingerSeq, wire,
                   tProbes, tPings, tTimeouts, tCtxDone, runErr, tStarted>>
    /\ UNCHANGED <<queue, outstandingRequests>>
    /\ UNCHANGED tFailed
    /\ UNCHANGED nont

(***************************************************************************)
(* The user quits: the ctx passed to Run (and to Read and the pingers) is  *)
(* cancelled.                                                              *)
(***************************************************************************)
Cancel ==
    /\ ~tCtxDone
    /\ tCtxDone' = TRUE
    /\ UNCHANGED <<tMaxHops, tDist, hops, runPc, runTTL, reader, pingerSeq,
                   wire, tProbes, tPings, tTimeouts, runErr, tStarted, tResets>>
    /\ UNCHANGED <<queue, outstandingRequests>>
    /\ UNCHANGED tFailed
    /\ UNCHANGED nont

TNext ==
    \/ RunCheck
    \/ RunInsert
    \/ \E fails \in BOOLEAN : RunSend(fails)
    \/ \E pkt \in wire : SockDeliver(pkt)
    \/ \E sq \in DOMAIN outstandingRequests : SockTimeout(sq)
    \/ ReaderRead
    \/ ReaderTimeout
    \/ HandleResponse
    \/ \E h \in DOMAIN pingerSeq, fails \in BOOLEAN : PingerTick(h, fails)
    \/ RunReturn
    \/ ResetStats
    \/ Cancel

InitTracer == TInit /\ QInit /\ SParked /\ DParked /\ LParked /\ FParked

SpecTracer == InitTracer /\ [][TNext]_vars

\* the reader goroutine is scheduled: a Read that can return a response
\* does, and the response read is handled
FairSpecTracer ==
    /\ SpecTracer
    /\ WF_vars(ReaderRead)
    /\ WF_vars(HandleResponse)

\* The Go scheduler runs every runnable goroutine; nothing obliges the
\* environment to push again, to call again or to cancel a context.
FairSpecQueue ==
    /\ InitQueue
    /\ [][QNext]_vars
    /\ WF_vars(PushBody)
    /\ \A c \in Consumers :
          /\ WF_vars(PopLock(c))
          /\ WF_vars(PopBody(c))
          /\ WF_vars(PopWaitSpawn(c))
          /\ WF_vars(PopWaitCancel(c))
    /\ \A h \in Helpers :
          /\ WF_vars(HelperWait(h))
          /\ WF_vars(HelperRelock(h))
          /\ WF_vars(HelperSend(h))

(***************************************************************************)
(* The mutexes: t.mu (Tracer), h.mu (one per HopStats), s.lock (Socket)    *)
(* and q.lock (queue). Every call is the sequence of Lock and Unlock calls *)
(* it makes, in the order of the code. A critical section that takes no    *)
(* other mutex and does not block (mu.Lock(); defer mu.Unlock(); body) is  *)
(* one step.                                                               *)
(***************************************************************************)

\* the number of hops of the path
LockHops == 2

TMu == <<"t.mu", 0>>
HMu(k) == <<"h.mu", k>>
SLock == <<"s.lock", 0>>
QLock == <<"q.lock", 0>>

Locks == {TMu, SLock, QLock} \cup {HMu(k) : k \in 1..LockHops}

NoOwner == "none"

\* mu.Lock(); ...; mu.Unlock() with no other mutex taken in between
Sec(mu) == << <<"Section", mu>> >>

\* mu.Lock(); inner; mu.Unlock()
Under(mu, inner) == << <<"Lock", mu>> >> \o inner \o << <<"Unlock", mu>> >>

\* one accessor or recorder of each hop of the sequence, in turn
RECURSIVE EachHop(_)
EachHop(order) ==
    IF order = <<>> THEN <<>>
    ELSE Sec(HMu(Head(order))) \o EachHop(Tail(order))

\* the orders in which a range over t.hops can reach hop k
ScansTo(k) ==
    {SubSeq(oi[1], 1, oi[2]) :
        oi \in {x \in Orders(1..LockHops) \X (1..LockHops) : x[1][x[2]] = k}}

\* pingTarget: h.recordSend, t.hops[ttl] = &h under t.mu, t.sock.Send
pingTargetLocks(k) == Sec(HMu(k)) \o Sec(TMu) \o Sec(SLock)

\* Run: t.lastHop(), which is t.Hops(), then lastHop.IP()
lastHopLocks(k) == Sec(TMu) \o Sec(HMu(k))

\* Socket.Read: PopWait calls Pop
ReadLocks == Sec(QLock)

\* recordAddr: h.ip = ip and net.LookupAddr(h.ip.String()), the reverse name
\* lookup, which takes its time, under h.mu
recordAddrLocks(k) == Under(HMu(k), << <<"Lookup", HMu(k)>> >>)

\* handleResponse, hop found by TTL: recordAddr and recordRecv under t.mu
handleResponseByTTL(k) == Under(TMu, recordAddrLocks(k) \o Sec(HMu(k)))

\* handleResponse, hop found by address: h.IP() for the hops ranged over,
\* recordRecv for the last of them, all under t.mu
handleResponseByIP(scan) ==
    Under(TMu, EachHop(scan) \o Sec(HMu(scan[Len(scan)])))

\* handleResponse, case ResponseTimeout: return
handleResponseTimeout == Sec(TMu)

\* a ResetStats that takes t.mu inside each hop's mutex
ResetStatsHopFirst(order) ==
    IF order = <<>> THEN <<>>
    ELSE Under(HMu(Head(order)), Sec(TMu))

\* ResetStats: h.Reset() for every hop, under t.mu
ResetStatsLocks(order) == Under(TMu, EachHop(order))

\* Hops, called by the UI
HopsLocks == Sec(TMu)

\* IP, Addr, PacketCount, Loss, AvgRTT, MedianRTT, called by the UI
AccessorLocks(k) == Sec(HMu(k))

\* startHopPinger, one tick: hop.recordSend, hop.IP() for the log, hop.IP()
\* for Send, t.sock.Send
pingerLocks(k) == Sec(HMu(k)) \o Sec(HMu(k)) \o Sec(HMu(k)) \o Sec(SLock)

\* Serve, case resp := <-ch: s.q.Push under s.lock, or nothing queued
ServeRecvLocks(queued) == Under(SLock, IF queued THEN Sec(QLock) ELSE <<>>)

\* Socket.timeout: one s.q.Push per expired request, under s.lock
RECURSIVE Pushes(_)
Pushes(n) == IF n = 0 THEN <<>> ELSE Sec(QLock) \o Pushes(n - 1)

timeoutLocks(n) == Under(SLock, Pushes(n))

\* readPacket: the lookup of the request
readPacketLocks == Sec(SLock)

\* PopWait's goroutine: q.lock.Lock(); q.notEmpty.Wait(), which unlocks and
\* on wake-up locks again; q.lock.Unlock()
helperLocks == Sec(QLock) \o Sec(QLock)

LockTasks == {"Run", "reader", "pinger", "UI", "Serve", "readPackets", "helper"}

\* the calls of Run's loop
RunCalls ==
    {pingTargetLocks(k) : k \in 1..LockHops}
       \cup {lastHopLocks(k) : k \in 1..LockHops}

\* the calls of Run's reader goroutine
ReaderCalls ==
    {ReadLocks, handleResponseTimeout}
       \cup {handleResponseByTTL(k) : k \in 1..LockHops}
       \cup UNION {{handleResponseByIP(scan) : scan \in ScansTo(k)} :
                      k \in 1..LockHops}

\* the calls of the hop pingers
PingerCalls == {pingerLocks(k) : k \in 1..LockHops}

\* the calls the UI makes
UICalls ==
    {HopsLocks}
       \cup {ResetStatsLocks(o) : o \in Orders(1..LockHops)}
       \cup {AccessorLocks(k) : k \in 1..LockHops}

\* the cases of Serve's select
ServeCalls ==
    {ServeRecvLocks(queued) : queued \in BOOLEAN}
       \cup {timeoutLocks(n) : n \in 0..LockHops}

\* the calls each goroutine makes
LockCalls(task) ==
    CASE task = "Run" -> RunCalls
      [] task = "reader" -> ReaderCalls
      [] task = "pinger" -> PingerCalls
      [] task = "UI" -> UICalls
      [] task = "Serve" -> ServeCalls
      [] task = "readPackets" -> {readPacketLocks}
      [] task = "helper" -> {helperLocks}

LInit ==
    /\ lkOwner = [mu \in Locks |-> NoOwner]
    /\ lkTask = [task \in LockTasks |-> <<>>]
    /\ lkNested = {}

\* the mutexes a goroutine holds
HeldBy(task) == {mu \in Locks : lkOwner[mu] = task}

(***************************************************************************)
(* sync.Mutex.Lock, the next of the calls in todo: blocks while the mutex  *)
(* is held (by anyone: it is not reentrant)                                *)
(***************************************************************************)
MutexLock(task, todo) ==
    /\ Head(todo)[1] = "Lock"
    /\ LET mu == Head(todo)[2] IN
         /\ lkOwner[mu] = NoOwner
         /\ lkOwner' = [lkOwner EXCEPT ![mu] = task]
         /\ lkNested' = lkNested \cup {<<outer, mu>> : outer \in HeldBy(task)}
    /\ lkTask' = [lkTask EXCEPT ![task] = Tail(todo)]
    /\ UNCHANGED nonl

(***************************************************************************)
(* A critical section on one mutex: Lock, which blocks while the mutex is  *)
(* held, the body, Unlock                                                  *)
(***************************************************************************)
MutexSection(task, todo) ==
    /\ Head(todo)[1] = "Section"
    /\ LET mu == Head(todo)[2] IN
         /\ lkOwner[mu] = NoOwner
         /\ lkNested' = lkNested \cup {<<outer, mu>> : outer \in HeldBy(task)}
    /\ lkTask' = [lkTask EXCEPT ![task] = Tail(todo)]
    /\ UNCHANGED lkOwner
    /\ UNCHANGED nonl

(***************************************************************************)
(* sync.Mutex.Unlock                                                       *)
(***************************************************************************)
MutexUnlock(task, todo) ==
    /\ Head(todo)[1] = "Unlock"
    /\ lkOwner' = [lkOwner EXCEPT ![Head(todo)[2]] = NoOwner]
    /\ lkTask' = [lkTask EXCEPT ![task] = Tail(todo)]
    /\ UNCHANGED lkNested
    /\ UNCHANGED nonl

(***************************************************************************)
(* net.LookupAddr returns                                                  *)
(***************************************************************************)
LookupAddrReturns(task, todo) ==
    /\ Head(todo)[1] = "Lookup"
    /\ lkTask' = [lkTask EXCEPT ![task] = Tail(todo)]
    /\ UNCHANGED <<lkOwner, lkNested>>
    /\ UNCHANGED nonl

(***************************************************************************)
(* A goroutine makes one of its calls, up to where it has the first mutex. *)
(***************************************************************************)
LockCall(task, call) ==
    /\ lkTask[task] = <<>>
    /\ \/ MutexLock(task, call)
       \/ MutexSection(task, call)

(***************************************************************************)
(* A goroutine goes on with its call.                                      *)
(***************************************************************************)
LockGoOn(task) ==
    /\ lkTask[task] # <<>>
    /\ \/ MutexLock(task, lkTask[task])
       \/ MutexSection(task, lkTask[task])
       \/ MutexUnlock(task, lkTask[task])
       \/ LookupAddrReturns(task, lkTask[task])

LNext ==
    \/ \E task \in LockTasks : \E call \in LockCalls(task) : LockCall(task, call)
    \/ \E task \in LockTasks : LockGoOn(task)

InitLocks == LInit /\ QInit /\ SParked /\ DParked /\ TParked /\ FParked

SpecLocks == InitLocks /\ [][LNext]_vars

\* The models of the queue, the socket, Discover, the tracer and the locks
\* while a single call is exercised.
MParked == QInit /\ SParked /\ DParked /\ TParked /\ LParked

(***************************************************************************)
(* ping.go: parseTimeExceeded. A TimeExceeded message quotes the IP header *)
(* and the first bytes of the datagram that expired: for an echo request,  *)
(* its 8-byte Echo header (type, code, checksum, id, seq). Bytes are the    *)
(* numbers 0..255; sequences are indexed from 1, Go's slices from 0.       *)
(***************************************************************************)

ipv4HeaderLen == 20
ipv6HeaderLen == 40
echoHeaderLen == 8
ByteBase == 256
MaxUint16 == 65535

\* ICMPv6 type numbers: echo request and echo reply; NotAnICMPType is a type
\* byte for which icmp.ParseMessage has no parser and returns a raw body
ICMPv6EchoRequest == 128
ICMPv6EchoReply == 129
NotAnICMPType == 0
ICMPv4Echo == 8

\* the 16-bit values tried for id and seq
U16Samples == {0, 1, 255, 256, 4660, 43981, MaxUint16}

Zeros(n) == [i \in 1..n |-> 0]

\* binary.BigEndian.PutUint16
PutUint16(v) == <<v \div ByteBase, v % ByteBase>>

\* a decoder that reads the low byte first
Uint16LittleEndian(b) == b[2] * ByteBase + b[1]

\* binary.BigEndian.Uint16
Uint16(b) == b[1] * ByteBase + b[2]

\* the Echo header: type, code, checksum (two bytes), id, seq
EchoHeader(typ, id, seq) == <<typ, 0, 0, 0>> \o PutUint16(id) \o PutUint16(seq)

\* the quoted IPv4 header: version 4, IHL 5
QuotedV4Header == <<4 * 16 + 5>> \o Zeros(ipv4HeaderLen - 1)

QuotedV6Header == Zeros(ipv6HeaderLen)

\* the Data of a TimeExceeded message for the family, cut short by cut bytes
TimeExceededData(fam, typ, id, seq, cut) ==
    LET full == (IF fam = 4 THEN QuotedV4Header ELSE QuotedV6Header)
                   \o EchoHeader(typ, id, seq)
    IN SubSeq(full, 1, Len(full) - cut)

ParseError(msg) == [id |-> 0, seq |-> 0, err |-> msg]

Parsed(id, seq) == [id |-> id, seq |-> seq, err |-> "nil"]

\* parseTimeExceededV4
parseTimeExceededV4(data) ==
    IF Len(data) < ipv4HeaderLen + echoHeaderLen
    THEN ParseError("IPv4 payload too short")
    ELSE LET hlen == (data[1] % 16) * 4 IN
           IF Len(data) < hlen + echoHeaderLen
           THEN ParseError("IPv4 inner payload too short")
           ELSE LET inner == SubSeq(data, hlen + 1, hlen + echoHeaderLen)
                IN Parsed(Uint16(SubSeq(inner, 5, 6)), Uint16(SubSeq(inner, 7, 8)))

\* icmp.ParseMessage(58, b) of golang.org/x/net, as far as parseTimeExceededV6
\* depends on it: an error for less than 4 bytes; for the echo types an
\* Echo body with ID and Seq, or an error when the body is shorter than 4
\* bytes; a raw body for a type it has no parser for
ParseMessageV6(b) ==
    IF Len(b) < 4 THEN [body |-> "error"]
    ELSE IF b[1] \in {ICMPv6EchoRequest, ICMPv6EchoReply}
         THEN IF Len(b) < echoHeaderLen THEN [body |-> "error"]
              ELSE [body |-> "Echo", ID |-> Uint16(SubSeq(b, 5, 6)),
                    Seq |-> Uint16(SubSeq(b, 7, 8))]
    ELSE [body |-> "raw"]

\* parseTimeExceededV6
parseTimeExceededV6(data) ==
    IF Len(data) < ipv6HeaderLen
    THEN ParseError("IPv6 payload too short")
    ELSE LET inner == SubSeq(data, ipv6HeaderLen + 1, Len(data))
             m == ParseMessageV6(inner)
         IN IF m.body = "error" THEN ParseError("parse")
            ELSE IF m.body = "Echo" THEN Parsed(m.ID, m.Seq)
            ELSE IF Len(inner) >= echoHeaderLen
                 THEN Parsed(Uint16(SubSeq(inner, 5, 6)),
                             Uint16(SubSeq(inner, 7, 8)))
            ELSE ParseError("inner ICMPv6 not Echo and too short")

\* parseTimeExceeded: src.To4() != nil
parseTimeExceeded(data, src) ==
    IF src = 4 THEN parseTimeExceededV4(data) ELSE parseTimeExceededV6(data)

\* the inner type bytes tried for the family
InnerTypes(fam) ==
    IF fam = 4 THEN {ICMPv4Echo}
    ELSE {ICMPv6EchoRequest, ICMPv6EchoReply, NotAnICMPType}

\* how many bytes the payloads tried are cut short by
MaxCut == 1

NotParsed == [id |-> 0, seq |-> 0, err |-> "none"]

\* a TimeExceeded message has been read
TEInit ==
    /\ teSrc \in {4, 6}
    /\ teEnc \in [id : U16Samples, seq : U16Samples,
                  typ : InnerTypes(4) \cup InnerTypes(6), cut : 0..MaxCut]
    /\ teEnc.typ \in InnerTypes(teSrc)
    /\ teData = TimeExceededData(teSrc, teEnc.typ, teEnc.id, teEnc.seq, teEnc.cut)
    /\ teRes = NotParsed

(***************************************************************************)
(* readPacket, case *icmp.TimeExceeded: parseTimeExceeded(body.Data, from) *)
(***************************************************************************)
ParseTimeExceeded ==
    /\ teRes = NotParsed
    /\ teRes' = parseTimeExceeded(teData, teSrc)
    /\ UNCHANGED <<teData, teSrc, teEnc>>
    /\ UNCHANGED tFailed
    /\ UNCHANGED nonte

InitParse ==
    TEInit /\ MParked /\ GParked
    /\ HSParked /\ SDParked /\ RSParked /\ NWParked /\ HPParked

SpecParse == InitParse /\ [][ParseTimeExceeded]_vars

(***************************************************************************)
(* hop.go: Loss, AvgRTT and MedianRTT. A time.Duration is a whole number   *)
(* of nanoseconds, and Go's / on it drops the fraction. A float64 is kept  *)
(* as the fraction <<numerator, denominator>> it stands for.               *)
(***************************************************************************)

MaxSent == 4
MaxSamples == 3
MaxRTT == 3

\* float64(0)
FloatZero == <<0, 1>>

\* HopStats.Loss: 0 if sent == 0, else 1 - float64(received)/float64(sent)
Loss(sent, received) ==
    IF sent = 0 THEN FloatZero ELSE <<sent - received, sent>>

RECURSIVE Total(_)
\* the loop of AvgRTT: total += r
Total(rtts) ==
    IF rtts = <<>> THEN 0 ELSE rtts[1] + Total(Tail(rtts))

\* HopStats.AvgRTT
AvgRTT(rtts) ==
    IF Len(rtts) = 0 THEN 0 ELSE Total(rtts) \div Len(rtts)

\* slices.Sort
SlicesSort(rtts) == SortSeq(rtts, LAMBDA a, b : a < b)

\* the middle of a slice taken as it is
Middle(rtts) ==
    LET n == Len(rtts) IN
      IF n = 0 THEN 0
      ELSE IF n % 2 = 1 THEN rtts[n \div 2 + 1]
      ELSE (rtts[n \div 2] + rtts[n \div 2 + 1]) \div 2

\* MedianRTT that does not sort
MedianRTTUnsorted(rtts) == Middle(rtts)

\* HopStats.MedianRTT: the value returned
MedianRTT(rtts) == Middle(SlicesSort(rtts))

\* no value returned yet; a value v returned is kept as <<v>>
NoCall == <<>>

\* a hop after some sends and receives: every sample came with a receive
HSInit ==
    /\ hsSent \in 0..MaxSent
    /\ hsReceived \in 0..MaxSent
    /\ hsRTTs \in UNION {[1..n -> 0..MaxRTT] : n \in 0..MaxSamples}
    /\ Len(hsRTTs) <= hsReceived
    /\ hsSamples = hsRTTs
    /\ hsOut = [loss |-> NoCall, avg |-> NoCall, median |-> NoCall]

CallLoss ==
    /\ hsOut.loss = NoCall
    /\ hsOut' = [hsOut EXCEPT !.loss = <<Loss(hsSent, hsReceived)>>]
    /\ UNCHANGED <<hsSent, hsReceived, hsRTTs, hsSamples>>
    /\ UNCHANGED nonhs

CallAvgRTT ==
    /\ hsOut.avg = NoCall
    /\ hsOut' = [hsOut EXCEPT !.avg = <<AvgRTT(hsRTTs)>>]
    /\ UNCHANGED <<hsSent, hsReceived, hsRTTs, hsSamples>>
    /\ UNCHANGED nonhs

\* MedianRTT sorts h.RTTs in place unless it is empty
CallMedianRTT ==
    /\ hsOut.median = NoCall
    /\ hsOut' = [hsOut EXCEPT !.median = <<MedianRTT(hsRTTs)>>]
    /\ hsRTTs' = SlicesSort(hsRTTs)
    /\ UNCHANGED <<hsSent, hsReceived, hsSamples>>
    /\ UNCHANGED nonhs

HSNext == CallLoss \/ CallAvgRTT \/ CallMedianRTT

InitAccessors ==
    HSInit /\ MParked /\ GParked
    /\ TEParked /\ SDParked /\ RSParked /\ NWParked /\ HPParked

SpecAccessors == InitAccessors /\ [][HSNext]_vars

(***************************************************************************)
(* ping.go: Socket.Send, call by call on a socket with either family or    *)
(* both, with what each call returned.                                     *)
(***************************************************************************)

MaxSendCalls == 2

SendFaults == {"none", "setTTL", "write"}

InitSend ==
    /\ families \in {{4}, {6}, {4, 6}}
    /\ outstandingRequests = <<>>
    /\ readers = <<>>
    /\ now = 0
    /\ nextSweep = 0
    /\ sentLog = <<>>
    /\ pushLog = <<>>
    /\ nRecv = 0
    /\ nSend = 0
    /\ droppedForeign = FALSE
    /\ sCtxDone = FALSE
    /\ servePc = "unused"
    /\ sdRet = <<>>
    /\ sdCalls = 0
    /\ QInit /\ DParked /\ TParked /\ LParked /\ GParked
    /\ TEParked /\ HSParked /\ RSParked /\ NWParked /\ HPParked

CallSend(target, seq, ttl, fault) ==
    /\ sdCalls < MaxSendCalls
    /\ sdCalls' = sdCalls + 1
    /\ LET req == [Target |-> target, TTL |-> ttl, Seq |-> seq,
                   TimeSent |-> now, uid |-> sdCalls + 1]
           result == SendResult(target, ttl, fault)
       IN /\ outstandingRequests' =
                TableAfterSend(outstandingRequests, req, result)
          /\ sdRet' = <<[target |-> target, seq |-> seq, ttl |-> ttl,
                         fault |-> fault, before |-> outstandingRequests,
                         err |-> result]>>
    /\ UNCHANGED families
    /\ UNCHANGED nonsd

SDNext ==
    \E p \in Probes, sq \in Seqs, fault \in SendFaults :
       CallSend(p[1], sq, p[2], fault)

SpecSend == InitSend /\ [][SDNext]_vars

(***************************************************************************)
(* ping.go: Socket.Resolve. net.LookupIP gives an error or the addresses   *)
(* of the host in the resolver's order; for an IP literal it gives the     *)
(* literal.                                                                *)
(***************************************************************************)

MaxIPs == 2

HostName == "host.example"

IPLiterals == V4IPs \cup V6IPs

\* what net.LookupIP can give for a host name
Lookups ==
    {[err |-> TRUE, ips |-> <<>>]} \cup
    {[err |-> FALSE, ips |-> l] :
        l \in UNION {[1..n -> IPLiterals] : n \in 0..MaxIPs}}

\* net.LookupIP of an IP literal
LookupLiteral(ip) == [err |-> FALSE, ips |-> <<ip>>]

ResolveError(msg) == [ip |-> NilIP, err |-> msg]

\* a loop that returns the first address, whatever its family
FirstSupportedAny(ips, fams) ==
    IF ips = <<>> THEN ResolveError("no IP support")
    ELSE [ip |-> Head(ips), err |-> "nil"]

RECURSIVE FirstSupported(_, _)
\* the loop of Resolve: case ip.To4() != nil: if s.v4 != nil return ip;
\* case ip.To16() != nil: if s.v6 != nil return ip
FirstSupported(ips, fams) ==
    IF ips = <<>> THEN ResolveError("no IP support")
    ELSE IF Family(Head(ips)) = 4 /\ 4 \in fams
         THEN [ip |-> Head(ips), err |-> "nil"]
    ELSE IF Family(Head(ips)) = 6 /\ 6 \in fams
         THEN [ip |-> Head(ips), err |-> "nil"]
    ELSE FirstSupported(Tail(ips), fams)

\* Socket.Resolve
Resolve(lookup, fams) ==
    IF lookup.err THEN ResolveError("failed to resolve")
    ELSE FirstSupported(lookup.ips, fams)

RSInit ==
    /\ rsHost \in IPLiterals \cup {HostName}
    /\ rsLookup \in Lookups \cup {LookupLiteral(ip) : ip \in IPLiterals}
    /\ rsHost \in IPLiterals => rsLookup = LookupLiteral(rsHost)
    /\ rsFamilies \in SUBSET {4, 6}
    /\ rsRet = <<>>

CallResolve ==
    /\ rsRet = <<>>
    /\ rsRet' = <<Resolve(rsLookup, rsFamilies)>>
    /\ UNCHANGED <<rsHost, rsLookup, rsFamilies>>
    /\ UNCHANGED nonrs

InitResolve ==
    RSInit /\ MParked /\ GParked
    /\ TEParked /\ HSParked /\ SDParked /\ NWParked /\ HPParked

SpecResolve == InitResolve /\ [][CallResolve]_vars

(***************************************************************************)
(* ping.go: New with its options. An option is WithIPv4 (4), WithIPv6 (6)  *)
(* or one that cannot fail, WithLogger or WithTimeout (0). The error New   *)
(* returns is the errors.Join of the options' errors, kept as the set of   *)
(* the families that failed: the empty set is the nil error.               *)
(***************************************************************************)

MaxOpts == 3

OtherOption == 0

SocketOptions == {4, 6, OtherOption}

\* WithIPv4 / WithIPv6: s.v4 (s.v6) becomes the connection, or nil with the
\* error of icmp.ListenPacket
ApplyOption(sock, opt, failing) ==
    IF opt = OtherOption THEN sock
    ELSE IF opt \in failing
         THEN [families |-> sock.families \ {opt}, err |-> sock.err \cup {opt}]
    ELSE [families |-> sock.families \cup {opt}, err |-> sock.err]

RECURSIVE ApplyOptions(_, _, _)
\* the loop of New over opts
ApplyOptions(sock, opts, failing) ==
    IF opts = <<>> THEN sock
    ELSE ApplyOptions(ApplyOption(sock, Head(opts), failing), Tail(opts), failing)

\* New: return &s, errs
New(opts, failing) == ApplyOptions([families |-> {}, err |-> {}], opts, failing)

NWInit ==
    /\ nwReq \in UNION {[1..n -> SocketOptions] : n \in 0..MaxOpts}
    /\ nwFail \in SUBSET {4, 6}
    /\ nwRet = <<>>

CallNew ==
    /\ nwRet = <<>>
    /\ nwRet' = <<New(nwReq, nwFail)>>
    /\ UNCHANGED <<nwReq, nwFail>>
    /\ UNCHANGED nonnw

InitNew ==
    NWInit /\ MParked /\ GParked
    /\ TEParked /\ HSParked /\ SDParked /\ RSParked /\ HPParked

SpecNew == InitNew /\ [][CallNew]_vars

(***************************************************************************)
(* tracer.go: Tracer.Hops, on the map Run has filled with one HopStats per *)
(* probe when no probe has been answered. The HopStats a slot points to is *)
(* named by the key it was inserted under; its TTL field is a uint8.       *)
(***************************************************************************)

MaxProbed == 257
MaxHopsCalls == 2

\* t.hops after pingTarget has run for the TTLs 1..n: t.hops[ttl] = &h for
\* each, h being a new HopStats with its probe recorded
HopsAfterProbes(n) ==
    [ttl \in 1..n |-> InsertHop(<<>>, ttl)[ttl]]

\* sort.Slice with less = hops[i].TTL < hops[j].TTL; it is not stable, so
\* entries of equal TTL come in either order
HopsSorted(hs, swapTies) ==
    SortSeq([i \in 1..Cardinality(DOMAIN hs) |-> [id |-> i, TTL |-> hs[i].TTL]],
            LAMBDA a, b : \/ a.TTL < b.TTL
                          \/ a.TTL = b.TTL
                               /\ (IF swapTies THEN a.id > b.id ELSE a.id < b.id))

\* the maps the model of Hops starts from
ProbedHops == [n \in 0..MaxProbed |-> HopsAfterProbes(n)]

InitHops ==
    /\ \E n \in 0..MaxProbed : hops = ProbedHops[n]
    /\ tMaxHops = 0
    /\ tDist = 0
    /\ runPc = "parked"
    /\ runTTL = 0
    /\ reader = <<>>
    /\ pingerSeq = <<>>
    /\ wire = {}
    /\ tProbes = <<>>
    /\ tPings = 0
    /\ tTimeouts = 0
    /\ tCtxDone = FALSE
    /\ runErr = "none"
    /\ tStarted = <<>>
    /\ tResets = 0
    /\ tFailed = {}
    /\ hpRet = <<>>
    /\ QInit /\ SParked /\ DParked /\ LParked /\ GParked
    /\ TEParked /\ HSParked /\ SDParked /\ RSParked /\ NWParked

CallHops(swapTies) ==
    /\ Len(hpRet) < MaxHopsCalls
    /\ hpRet' = Append(hpRet, HopsSorted(hops, swapTies))
    /\ UNCHANGED nonhp

HPNext == \E swapTies \in BOOLEAN : CallHops(swapTies)

SpecHops == InitHops /\ [][HPNext]_vars

(***************************************************************************)
(* ping.go: Socket.Send called by several goroutines at once (Run's        *)
(* pingTarget and the hop pingers). A call is followed statement by        *)
(* statement: s.lock.Lock(), s.setTTL(ttl) unless ttl is 0,                *)
(* socket.WriteTo, the deferred s.lock.Unlock().                           *)
(***************************************************************************)
NumSenders == 2
MaxSendTTL == 2
MaxTTLCalls == 3

Senders == 1..NumSenders

STInit ==
    /\ stLock = NoSender
    /\ stPc = [k \in Senders |-> "idle"]
    /\ stArg = [k \in Senders |-> 0]
    /\ stSockTTL = 0
    /\ stWire = <<>>
    /\ stCalls = 0

\* a goroutine calls Send(target, seq, ttl, payload)
SendCall(k, ttl) ==
    /\ stPc[k] = "idle"
    /\ stCalls < MaxTTLCalls
    /\ stCalls' = stCalls + 1
    /\ stArg' = [stArg EXCEPT ![k] = ttl]
    /\ stPc' = [stPc EXCEPT ![k] = "lock"]
    /\ UNCHANGED <<stLock, stSockTTL, stWire>>
    /\ UNCHANGED nonst

\* a Send that does not wait for the mutex
SendLockNotExclusive(k) ==
    /\ stPc[k] = "lock"
    /\ stLock' = k
    /\ stPc' = [stPc EXCEPT ![k] = IF stArg[k] # 0 THEN "setTTL" ELSE "write"]
    /\ UNCHANGED <<stArg, stSockTTL, stWire, stCalls>>
    /\ UNCHANGED nonst

\* s.lock.Lock(); defer s.lock.Unlock(); the message is built; if ttl != 0
SendLock(k) ==
    /\ stPc[k] = "lock"
    /\ stLock = NoSender
    /\ stLock' = k
    /\ stPc' = [stPc EXCEPT ![k] = IF stArg[k] # 0 THEN "setTTL" ELSE "write"]
    /\ UNCHANGED <<stArg, stSockTTL, stWire, stCalls>>
    /\ UNCHANGED nonst

\* s.setTTL(ttl): SetTTL on s.v4 and SetHopLimit on s.v6; when it fails
\* Send returns the error, and the option may have been set on one socket
SendSetTTL(k, fails) ==
    /\ stPc[k] = "setTTL"
    /\ IF fails
       THEN /\ stSockTTL' \in {stSockTTL, stArg[k]}
            /\ stPc' = [stPc EXCEPT ![k] = "unlock"]
       ELSE /\ stSockTTL' = stArg[k]
            /\ stPc' = [stPc EXCEPT ![k] = "write"]
    /\ UNCHANGED <<stLock, stArg, stWire, stCalls>>
    /\ UNCHANGED nonst

\* socket.WriteTo(data, &net.UDPAddr{IP: target}): the datagram leaves with
\* the TTL the socket has now; s.outstandingRequests[seq] = Request{...}
SendWriteTo(k) ==
    /\ stPc[k] = "write"
    /\ stWire' = Append(stWire, [by |-> k, ttl |-> stArg[k], sent |-> stSockTTL])
    /\ stPc' = [stPc EXCEPT ![k] = "unlock"]
    /\ UNCHANGED <<stLock, stArg, stSockTTL, stCalls>>
    /\ UNCHANGED nonst

\* return: the deferred s.lock.Unlock()
SendUnlock(k) ==
    /\ stPc[k] = "unlock"
    /\ stLock' = NoSender
    /\ stPc' = [stPc EXCEPT ![k] = "idle"]
    /\ UNCHANGED <<stArg, stSockTTL, stWire, stCalls>>
    /\ UNCHANGED nonst

STNext ==
    \/ \E k \in Senders, ttl \in 0..MaxSendTTL : SendCall(k, ttl)
    \/ \E k \in Senders : SendLock(k)
    \/ \E k \in Senders, fails \in BOOLEAN : SendSetTTL(k, fails)
    \/ \E k \in Senders : SendWriteTo(k)
    \/ \E k \in Senders : SendUnlock(k)

InitSendTTL == STInit /\ MParked /\ SingleParked /\ PHParked

SpecSendTTL == InitSendTTL /\ [][STNext]_vars

(***************************************************************************)
(* package ping of the first revisions: pingHop with its table of          *)
(* outstanding packets. Time is counted in send intervals; the send ticker *)
(* fires every interval and the timeout ticker every timeout. The channel  *)
(* ch brings the responses that came from the hop's address: those to the  *)
(* hop's own requests, late or not, and others (duplicates, answers to     *)
(* sequence numbers this pingHop has not sent).                            *)
(***************************************************************************)
MaxPhSends == 3
MaxPhTime == 5
MaxPhTimeout == 2
MaxStray == 1

\* outstandingPackets.add: o.packets[seq] = time.Now()
PacketsAdd(packets, seq, t) ==
    [sq \in DOMAIN packets \cup {seq} |-> IF sq = seq THEN t ELSE packets[sq]]

\* a latency that leaves the entry in the table
PacketsAfterLatencyKept(packets, seq) == packets

\* outstandingPackets.latency: delete(o.packets, seq) if it is there
PacketsAfterLatency(packets, seq) ==
    [sq \in DOMAIN packets \ {seq} |-> packets[sq]]

\* outstandingPackets.timeout: the sequence numbers with
\* time.Since(sent) > timeout
TimedOut(packets, timeout, t) ==
    {sq \in DOMAIN packets : t - packets[sq] > timeout}

\* hop.Received(false, 0), once for each of the packets timed out
RECURSIVE ReceivedTimeouts(_, _)
ReceivedTimeouts(outcomes, order) ==
    IF order = <<>> THEN outcomes
    ELSE ReceivedTimeouts(
             Append(outcomes, [seq |-> Head(order), kind |-> "timeout", up |-> FALSE]),
             Tail(order))

PHInit ==
    /\ phTimeout \in 1..MaxPhTimeout
    /\ phNow = 0
    /\ phSeq = 0
    /\ phPackets = <<>>
    /\ phSent = 0
    /\ phOutcomes = <<>>
    /\ phWire = {}
    /\ phStray = 0
    /\ phDue = {}
    /\ phPc = "select"

\* a send interval passes: the send ticker fires, and the timeout ticker
\* when it is its time
PhTick ==
    /\ phPc = "select"
    /\ phDue = {}
    /\ phNow < MaxPhTime
    /\ phNow' = phNow + 1
    /\ phDue' = (IF phSeq < MaxPhSends THEN {"send"} ELSE {})
                   \cup (IF (phNow + 1) % phTimeout = 0 THEN {"sweep"} ELSE {})
    /\ UNCHANGED <<phTimeout, phSeq, phPackets, phSent, phOutcomes, phWire,
                   phStray, phPc>>
    /\ UNCHANGED nonph

\* case <-sendTicker.C: seq++; s.Ping(...), whose error is only logged;
\* packets.add(seq); hop.Sent()
PhSend(fails) ==
    /\ phPc = "select"
    /\ "send" \in phDue
    /\ phDue' = phDue \ {"send"}
    /\ phSeq' = (phSeq + 1) % (MaxUint16 + 1)
    /\ phWire' = IF fails THEN phWire ELSE phWire \cup {phSeq'}
    /\ phPackets' = PacketsAdd(phPackets, phSeq', phNow)
    /\ phSent' = phSent + 1
    /\ UNCHANGED <<phTimeout, phNow, phOutcomes, phStray, phPc>>
    /\ UNCHANGED nonph

\* case <-timeoutTicker.C: for range packets.timeout(timeout)
\* { hop.Received(false, 0) }
PhSweep ==
    /\ phPc = "select"
    /\ "sweep" \in phDue
    /\ phDue' = phDue \ {"sweep"}
    /\ LET timedOut == TimedOut(phPackets, phTimeout, phNow)
       IN /\ phPackets' = [sq \in DOMAIN phPackets \ timedOut |-> phPackets[sq]]
          /\ \E order \in Orders(timedOut) :
                phOutcomes' = ReceivedTimeouts(phOutcomes, order)
    /\ UNCHANGED <<phTimeout, phNow, phSeq, phSent, phWire, phStray, phPc>>
    /\ UNCHANGED nonph

\* case resp := <-ch: if latency, ok := packets.latency(resp.seq); ok
\* { hop.Received(up, latency) }
PhRecv(seq, up, stray) ==
    /\ phPc = "select"
    /\ IF stray
       THEN /\ phStray < MaxStray
            /\ phStray' = phStray + 1
            /\ UNCHANGED phWire
       ELSE /\ seq \in phWire
            /\ phWire' = phWire \ {seq}
            /\ UNCHANGED phStray
    /\ IF seq \in DOMAIN phPackets
       THEN /\ phPackets' = PacketsAfterLatency(phPackets, seq)
            /\ phOutcomes' =
                  Append(phOutcomes, [seq |-> seq, kind |-> "reply", up |-> up])
       ELSE UNCHANGED <<phPackets, phOutcomes>>
    /\ UNCHANGED <<phTimeout, phNow, phSeq, phSent, phDue, phPc>>
    /\ UNCHANGED nonph

\* case <-ctx.Done(): return
PhCancel ==
    /\ phPc = "select"
    /\ phPc' = "returned"
    /\ UNCHANGED <<phTimeout, phNow, phSeq, phPackets, phSent, phOutcomes,
                   phWire, phStray, phDue>>
    /\ UNCHANGED nonph

PHNext ==
    \/ PhTick
    \/ \E fails \in BOOLEAN : PhSend(fails)
    \/ PhSweep
    \/ \E seq \in 0..(MaxPhSends + 1), up, stray \in BOOLEAN : PhRecv(seq, up, stray)
    \/ PhCancel

InitPingHop == PHInit /\ MParked /\ SingleParked /\ STParked

SpecPingHop == InitPingHop /\ [][PHNext]_vars

(***************************************************************************)
(* The claims about the response queue.                                    *)
(***************************************************************************)

\* C1: under every interleaving of Push, Pop and PopWait, each pushed value
\* is returned by at most one Pop/PopWait call (pushed values are distinct,
\* so no value occurs twice in the log of returned values).
C1_NoValueReturnedTwice == NoDuplicates(popped)

\* C1 witness: both consumers have returned a value, everything pushed.
C1_Witness ==
    /\ Len(popped) = MaxPush
    /\ \E c, d \in Consumers : c # d /\ cons[c].ret = "value" /\ cons[d].ret = "value"

\* a PopWait call is in progress and its context is live
WaitingLive ==
    \E c \in Consumers :
        cons[c].mode = "PopWait" /\ cons[c].pc # "idle" /\ ~cons[c].ctxDone

\* C2: a value that is in the queue while a PopWait caller with a live
\* context is active is eventually returned (it leaves the queue) unless
\* the callers' contexts end; no further Push is needed for that.
C2_PushedValueEventuallyReturned ==
    \A v \in Values :
        (v \in RangeOf(queue) /\ WaitingLive)
            ~> (v \notin RangeOf(queue) \/ ~WaitingLive)

\* C3: a PopWait that returns on ctx.Done() returns an error and leaves the
\* queue as it was, and no pushed value is ever lost: each is still queued
\* or has been returned.
C3_CancelKeepsQueue ==
    /\ [][\A c \in Consumers :
            (cons[c].pc = "select" /\ cons'[c].pc = "idle")
                => (cons'[c].ret = "err" /\ queue' = queue)]_vars
    /\ [](RangeOf(queue) \cup RangeOf(popped) \cup
            (IF prod.pc = "locked" THEN {prod.val} ELSE {}) = 1..(nextVal - 1))

\* C3 witness: a PopWait returned the context's error while a value was queued
C3_Witness ==
    \E c \in Consumers : cons[c].ret = "err" /\ cons[c].pc = "idle" /\ Len(queue) > 0

(***************************************************************************)
(* The claims about the socket.                                            *)
(***************************************************************************)

IsReply(resp) == resp.ResponseType \in {"EchoReply", "TimeExceeded"}

ReplyEntries == {i \in 1..Len(pushLog) : IsReply(pushLog[i].resp)}

TimeoutEntries == {i \in 1..Len(pushLog) : pushLog[i].resp.ResponseType = "Timeout"}

\* the responses Read has returned so far: the queue is first-in first-out
NumDelivered == Len(pushLog) - Len(queue)

C5_ForeignIdNeverDelivered ==
    /\ [](\A i \in ReplyEntries : pushLog[i].pkt.id = SockId)
    /\ [](\A f \in families : readers[f].pc = "send" => readers[f].pkt.id = SockId)
    /\ [][droppedForeign' # droppedForeign =>
            UNCHANGED <<queue, pushLog, outstandingRequests, readers>>]_vars

\* C5 witness: such a datagram was read while its seq was outstanding
C5_Witness == droppedForeign /\ outstandingRequests # <<>> /\ pushLog = <<>>

\* C6: for one request only the first correlated reply is queued; a later
\* reply with the same sequence number is dropped.
C6_DuplicateReplyDropped ==
    \A i, j \in ReplyEntries :
        i # j => pushLog[i].resp.Request.uid # pushLog[j].resp.Request.uid

\* C7: a request leaves the table when its reply is queued or when the
\* sweep times it out, so no request gets both a reply and a Timeout.
C7_RequestConsumedOnce ==
    /\ \A i \in ReplyEntries :
          \A sq \in DOMAIN outstandingRequests :
              outstandingRequests[sq] # pushLog[i].resp.Request
    /\ \A i \in ReplyEntries, j \in TimeoutEntries :
          pushLog[i].resp.Request.uid # pushLog[j].resp.Request.uid

\* no reply has been correlated with the request
Unmatched(req) ==
    /\ \A i \in ReplyEntries : pushLog[i].resp.Request # req
    /\ \A f \in families : readers[f].resp.Request # req

\* C8: every request that no reply matched is queued as a Timeout response
\* carrying the request and zero latency, later than TimeSent + read
\* timeout and no later than TimeSent + read timeout + sweep interval.
C8_UnmatchedRequestTimesOut ==
    /\ \A i \in TimeoutEntries :
          /\ pushLog[i].resp = TimeoutResponse(pushLog[i].resp.Request)
          /\ pushLog[i].resp.Request \in RangeOf(sentLog)
          /\ pushLog[i].at > pushLog[i].resp.Request.TimeSent + defaultReadTimeout
    /\ \A k \in 1..Len(sentLog) :
          (/\ Unmatched(sentLog[k])
           /\ now >= sentLog[k].TimeSent + defaultReadTimeout + timeoutInterval
           /\ nextSweep > now)
          => \E i \in TimeoutEntries :
                /\ pushLog[i].resp.Request = sentLog[k]
                /\ pushLog[i].at <= sentLog[k].TimeSent + defaultReadTimeout
                                       + timeoutInterval

\* Stronger than C4: the request a queued reply carries is the very entry
\* the table holds when Serve queues it. This fails when a Send reuses the
\* sequence number between readPacket and Serve.
Aux_ReplyCarriesCurrentEntry ==
    [][(Len(pushLog') > Len(pushLog) /\ IsReply(pushLog'[Len(pushLog')].resp))
            => /\ pushLog'[Len(pushLog')].pkt.seq \in DOMAIN outstandingRequests
               /\ outstandingRequests[pushLog'[Len(pushLog')].pkt.seq]
                     = pushLog'[Len(pushLog')].resp.Request]_vars

NoSeqReuse == \A i, j \in 1..Len(sentLog) : i # j => sentLog[i].Seq # sentLog[j].Seq

\* C8 holds as long as no two Sends use the same sequence number
Aux_TimesOutWithoutReuse == NoSeqReuse => C8_UnmatchedRequestTimesOut


(***************************************************************************)
(* The claims about discovery.                                             *)
(***************************************************************************)

\* the probes sent so far carry the TTLs 1, 2, 3, ... in this order
InTTLOrder(probes) == \A i \in 1..Len(probes) : probes[i] = i

\* C10: when Discover has returned without having read an EchoReply (and
\* no Ping failed), it returns the max-TTL-exceeded error, it has sent
\* exactly max_ttl probes (64 when 0 was passed), the path has max_ttl
\* hops, and main starts no pinger.
C10_MaxTTLExceeded ==
    (dPc \in {"done", "returned"} /\ dEchoAt = 0 /\ dErr # "ping") =>
        /\ dErr = "maxttl"
        /\ Len(dProbes) = (IF dArg = 0 THEN 64 ELSE dArg)
        /\ Len(dRoute) = (IF dArg = 0 THEN 64 ELSE dArg)
        /\ ~dPinger

\* C10 witness: called with maxTTL 0, Discover gave up after 64 probes
C10_Witness ==
    /\ dPc = "returned"
    /\ dArg = 0
    /\ dErr = "maxttl"
    /\ Len(dProbes) = 64

\* Discover alone does what C9 says: TTLs in order, and it returns nil at
\* the first EchoReply it reads, with as many hops as that TTL, no later
\* probe, and the address the target answers from in the last hop only.
Aux_DiscoverStopsAtTarget ==
    /\ InTTLOrder(dProbes)
    /\ (dErr = "nil") = (dEchoAt # 0)
    /\ dEchoAt # 0 =>
          /\ Len(dRoute) = dEchoAt
          /\ Len(dProbes) = dEchoAt
          /\ {i \in 1..Len(dRoute) : dRoute[i] = dFrom} = {dEchoAt}
    /\ dEchoAt = 0 => \A i \in 1..Len(dRoute) : dRoute[i] # dFrom


\* the hops that carry the target's address
TargetHops == {h \in DOMAIN hops : hops[h].ip = tDist}

\* C9: discovery sends the TTLs 1, 2, 3, ... in this order and stops at the
\* first TTL at which the target's EchoReply is observed: once a hop has
\* the target's address, that hop is the last of the path, no probe with a
\* larger TTL has been or will be sent, and it is the only hop with the
\* target's address.
C9_StopsAtTarget ==
    /\ InTTLOrder(tProbes)
    /\ \A h \in TargetHops :
          /\ DOMAIN hops = 1..h
          /\ \A i \in 1..Len(tProbes) : tProbes[i] <= h
          /\ TargetHops = {h}


(***************************************************************************)
(* The claims about the tracer.                                            *)
(***************************************************************************)

\* C11: when Run has returned after maxHops probes none of which found the
\* target (and no Send failed), it has returned a max-TTL-exceeded error;
\* and as long as ctx is live, every pinger attached to a hop is running.
C11_MaxTTLExceededReported ==
    /\ (runPc = "returned" /\ runErr # "send" /\ TargetHops = {}
           /\ Len(tProbes) = tMaxHops)
          => runErr = "MaxTTLExceeded"
    /\ ~tCtxDone =>
          \A h \in DOMAIN hops : hops[h].hasPinger => h \in DOMAIN pingerSeq


C13_ReceivedAtMostSent ==
    \A h \in DOMAIN hops :
        /\ hops[h].received <= hops[h].sent
        /\ Len(hops[h].RTTs) <= hops[h].received


\* C14 as stated: across a tracer run no step makes a hop's sent or
\* received counter smaller.
C14_CountersNeverDecrease ==
    [][\A h \in DOMAIN hops :
          /\ hops'[h].sent >= hops[h].sent
          /\ hops'[h].received >= hops[h].received]_vars

\* C14 amended: a hop's sent and received counters never decrease except
\* in a ResetStats call, which sets both to 0 for every hop.
C14_CountersDecreaseOnlyOnReset ==
    [][\A h \in DOMAIN hops :
          IF tResets' = tResets
          THEN /\ hops'[h].sent >= hops[h].sent
               /\ hops'[h].received >= hops[h].received
          ELSE /\ hops'[h].sent = 0
               /\ hops'[h].received = 0]_vars

\* C14 witness: after a ResetStats a hop has counted a response again
C14_Witness ==
    /\ tResets > 0
    /\ \E h \in DOMAIN hops : hops[h].received > 0 /\ hops[h].sent = 0


\* C15: once a hop has a non-empty IP address, no later step of the tracer
\* changes that address.
C15_AddressNeverChanges ==
    [][\A h \in DOMAIN hops :
          hops[h].ip # NilHop => hops'[h].ip = hops[h].ip]_vars


\* C16: for every hop at most one pinger is ever started, and hasPinger
\* never goes back from true to false, however many responses are booked
\* on the hop.
C16_OnePingerPerHop ==
    /\ [](\A h \in DOMAIN hops :
             /\ tStarted[h] <= 1
             /\ hops[h].hasPinger <=> tStarted[h] = 1)
    /\ [][\A h \in DOMAIN hops :
             hops[h].hasPinger => hops'[h].hasPinger]_vars

\* C16 witness: a hop with one pinger has had a second response booked
C16_Witness ==
    \E h \in DOMAIN hops :
        /\ hops[h].hasPinger
        /\ tStarted[h] = 1
        /\ hops[h].received >= 2


\* C17: after the context passed to Serve is cancelled, Serve and every
\* reader goroutine it started eventually return.
C17_ServeAndReadersReturn ==
    sCtxDone ~> (/\ servePc = "returned"
                 /\ \A f \in families : readers[f].pc = "returned")

\* Serve itself does return after the cancellation
Aux_ServeReturns == sCtxDone ~> servePc = "returned"

\* C18: once the context is cancelled, Run and the reader return at their
\* next suspension point (the sleep after a probe, the Read) instead
\* of going on, and from then on no hop is added, no probe or ping is sent
\* and no hop's statistics change (unless the user resets them).
C18_NoMutationAfterCancel ==
    /\ [][(tCtxDone /\ runPc = "check" /\ Len(tProbes) > 0)
             => runPc' # "insert"]_vars
    /\ [][(tCtxDone /\ reader.pc = "read") => reader'.pc # "handle"]_vars
    /\ [][(/\ tCtxDone
            /\ runPc \notin {"insert", "send"}
            /\ reader.pc # "handle"
            /\ tResets' = tResets)
             => /\ hops' = hops
                /\ tProbes' = tProbes
                /\ tPings' = tPings]_vars

\* the pingers do stop: after the cancellation no pinger sends
Aux_PingersStopOnCancel ==
    [][tCtxDone => tPings' = tPings]_vars


\* C20: no Send of a tracer run uses the sequence number of a request that
\* is still outstanding: an entry of the request table is never replaced by
\* another request.
C20_OutstandingNeverOverwritten ==
    [][\A sq \in DOMAIN outstandingRequests :
          sq \in DOMAIN outstandingRequests'
             => outstandingRequests'[sq] = outstandingRequests[sq]]_vars


\* the goroutine waits in Lock for a mutex that is held
Blocked(task) ==
    /\ lkTask[task] # <<>>
    /\ Head(lkTask[task])[1] \in {"Lock", "Section"}
    /\ lkOwner[Head(lkTask[task])[2]] # NoOwner

\* the goroutine reached from task after n steps of "waits for the holder"
RECURSIVE WaitChain(_, _)
WaitChain(task, n) ==
    IF n = 0 THEN task
    ELSE IF task = NoOwner \/ ~Blocked(task) THEN NoOwner
    ELSE WaitChain(lkOwner[Head(lkTask[task])[2]], n - 1)

\* C19: no two mutexes are ever taken nested in opposite orders, and no
\* set of goroutines waits in a cycle for mutexes the others hold.
C19_NoOppositeNesting ==
    /\ \A pair \in lkNested : <<pair[2], pair[1]>> \notin lkNested
    /\ \A task \in DOMAIN lkTask :
          \A n \in 1..Cardinality(DOMAIN lkTask) : WaitChain(task, n) # task

\* C19 witness: both nestings of the code have occurred (a hop's mutex
\* under t.mu, q.lock under s.lock), and two goroutines wait for t.mu and
\* for s.lock while two others hold them
C19_Witness ==
    /\ \E k \in 1..LockHops : <<TMu, HMu(k)>> \in lkNested
    /\ <<SLock, QLock>> \in lkNested
    /\ \E t1, t2 \in DOMAIN lkTask :
          /\ Blocked(t1) /\ Head(lkTask[t1])[2] = TMu
          /\ Blocked(t2) /\ Head(lkTask[t2])[2] = SLock


(***************************************************************************)
(* The claims about single calls.                                          *)
(***************************************************************************)

\* C21: for every 16-bit id and seq written big-endian into the inner Echo
\* header behind a quoted IPv4 header with IHL 5 or a 40-byte IPv6 header,
\* parseTimeExceeded returns exactly that id and seq and no error, for
\* IPv6 with an inner echo message as well as with an 8-byte header that
\* is no ICMPv6 message.
C21_ParseRecoversIdSeq ==
    (teRes # NotParsed /\ teRes # <<>> /\ teEnc.cut = 0)
       => teRes = Parsed(teEnc.id, teEnc.seq)

\* C21 witness: an id and a seq with different high and low bytes recovered
\* from an IPv6 payload whose inner header is no ICMPv6 message
C21_Witness ==
    /\ teSrc = 6
    /\ teRes # NotParsed
    /\ teEnc.typ = NotAnICMPType
    /\ teEnc.cut = 0
    /\ teRes.id = 4660
    /\ teRes.seq = 43981


\* the j-th smallest of the samples, counted with repetitions
OrderStat(samples, j) ==
    CHOOSE v \in RangeOf(samples) :
      /\ Cardinality({i \in DOMAIN samples : samples[i] < v}) < j
      /\ Cardinality({i \in DOMAIN samples : samples[i] <= v}) >= j

RECURSIVE SumOf(_, _)
SumOf(samples, idx) ==
    IF idx = {} THEN 0
    ELSE LET i == CHOOSE i \in idx : TRUE
         IN samples[i] + SumOf(samples, idx \ {i})

\* the whole nanoseconds of the fraction num / den, for num >= 0 and den > 0
WholePart(v, num, den) == v * den <= num /\ num < (v + 1) * den

\* C22: for a hop with k sends, r receives and the RTT samples R, Loss is
\* 1 - r/k if k > 0 and 0 if k = 0; AvgRTT is the mean of R, in whole
\* nanoseconds, and 0 if R is empty; MedianRTT is the middle order statistic
\* of R, for an even length the mean of the two middle ones in whole
\* nanoseconds, and 0 if R is empty.
C22_LossAvgMedian ==
    LET n == Len(hsSamples) IN
    /\ hsOut.loss # NoCall =>
          LET loss == hsOut.loss[1] IN
          /\ loss[2] # 0
          /\ IF hsSent = 0 THEN loss[1] = 0
             ELSE loss[1] * hsSent = (hsSent - hsReceived) * loss[2]
    /\ hsOut.avg # NoCall =>
          IF n = 0 THEN hsOut.avg[1] = 0
          ELSE WholePart(hsOut.avg[1], SumOf(hsSamples, DOMAIN hsSamples), n)
    /\ hsOut.median # NoCall =>
          IF n = 0 THEN hsOut.median[1] = 0
          ELSE IF n % 2 = 1
               THEN hsOut.median[1] = OrderStat(hsSamples, n \div 2 + 1)
          ELSE WholePart(hsOut.median[1],
                         OrderStat(hsSamples, n \div 2)
                           + OrderStat(hsSamples, n \div 2 + 1), 2)

\* C22 witness: all three called on a hop with loss 1/4 and three unsorted
\* samples whose middle one is not in the middle place
C22_Witness ==
    /\ hsSent = 4
    /\ hsReceived = 3
    /\ hsSamples = <<3, 0, 2>>
    /\ hsOut.loss = << <<1, 4>> >>
    /\ hsOut.avg = <<1>>
    /\ hsOut.median = <<2>>

(***************************************************************************)
(* More claims about the tracer.                                           *)
(***************************************************************************)

\* C23: ResetStats sets sent and received of every hop to 0 and empties its
\* RTT samples and pending send times; it leaves the set of hops and each
\* hop's ttl, ip, display name and hasPinger as they were, and the pingers
\* that run keep their sequence counters and go on.
C23_ResetStatsFrame ==
    [][tResets' # tResets =>
         /\ DOMAIN hops' = DOMAIN hops
         /\ \A h \in DOMAIN hops :
              /\ hops'[h].sent = 0
              /\ hops'[h].received = 0
              /\ hops'[h].RTTs = <<>>
              /\ hops'[h].sentTimes = {}
              /\ hops'[h].TTL = hops[h].TTL
              /\ hops'[h].ip = hops[h].ip
              /\ hops'[h].addr = hops[h].addr
              /\ hops'[h].hasPinger = hops[h].hasPinger
         /\ pingerSeq' = pingerSeq
         /\ tCtxDone' = tCtxDone]_vars

\* C23 witness: after a reset a hop with a name and a pinger has empty
\* counters and its pinger has sent again
C23_Witness ==
    /\ tResets > 0
    /\ \E h \in DOMAIN hops :
         /\ hops[h].addr # <<>>
         /\ hops[h].hasPinger
         /\ hops[h].sent = 1
         /\ hops[h].received = 0
         /\ tPings > 0


(***************************************************************************)
(* More claims about the socket.                                           *)
(***************************************************************************)

\* C24: a Send whose target has no determinable family or a family the
\* socket has not got, whose TTL cannot be set or whose write fails returns
\* an error, and a Send that returns an error leaves the table of
\* outstanding requests as it was before the call.
C24_FailedSendRecordsNothing ==
    sdRet # <<>> =>
       LET c == sdRet[1] IN
       /\ (\/ Family(c.target) \notin families
           \/ (c.ttl # 0 /\ c.fault = "setTTL")
           \/ c.fault = "write") => c.err # "nil"
       /\ c.err # "nil" => outstandingRequests = c.before

\* C24 witness: a write that failed for a seq that is not in the table,
\* which holds an earlier request
C24_Witness ==
    /\ sdRet # <<>>
    /\ sdRet[1].err = "write failed"
    /\ sdRet[1].fault = "write"
    /\ Family(sdRet[1].target) \in families
    /\ DOMAIN outstandingRequests # {}
    /\ sdRet[1].seq \notin DOMAIN outstandingRequests


\* a Read is a PopWait under a context that is done at the read timeout or
\* at the caller's cancellation, whichever is first
ReadOf(c) == ReadReturn(cons[c].ret, cons[c].val)

\* C25: a Read whose context ends before a response is available returns,
\* and what it returns is a Response of kind Timeout, and it leaves the
\* queue as it was.
C25_ReadTimeoutKind ==
    /\ [](\A c \in Consumers :
            (cons[c].mode = "PopWait" /\ cons[c].pc = "idle"
               /\ cons[c].ret = "err")
                => ReadOf(c).resp.ResponseType = "Timeout")
    /\ [][\A c \in Consumers :
            (cons[c].mode = "PopWait" /\ cons'[c].pc = "idle"
               /\ cons[c].pc # "idle" /\ cons'[c].ret = "err")
                => queue' = queue]_vars


\* the places of the looked-up addresses whose family the socket has
Supported == {i \in DOMAIN rsLookup.ips : Family(rsLookup.ips[i]) \in rsFamilies}

\* C26: Resolve returns the first address, in the order of the lookup, whose
\* family the socket has, and an error when the lookup fails or no address
\* has such a family; an IP literal resolves to itself.
C26_ResolveFirstSupported ==
    rsRet # <<>> =>
       LET r == rsRet[1] IN
       /\ rsLookup.err => r.err # "nil"
       /\ (~rsLookup.err /\ Supported = {}) => r.err # "nil"
       /\ (~rsLookup.err /\ Supported # {}) =>
             /\ r.err = "nil"
             /\ r.ip = rsLookup.ips[CHOOSE i \in Supported :
                                       \A j \in Supported : i <= j]
       /\ (rsHost \in IPLiterals /\ r.err = "nil") => r.ip = rsHost

\* C26 witness: the second address is returned because the socket has not
\* got the family of the first
C26_Witness ==
    /\ rsRet # <<>>
    /\ rsFamilies = {4}
    /\ rsLookup.ips = <<"::1", "10.0.0.9">>
    /\ rsRet[1] = [ip |-> "10.0.0.9", err |-> "nil"]


\* the families New was asked for
Requested == RangeOf(nwReq) \cap {4, 6}

\* C27: New leaves exactly the requested families enabled that could be
\* bound, and when at least one of them could be bound it returns no error:
\* it returns an error only when none could.
C27_OneFamilyIsEnough ==
    nwRet # <<>> =>
       /\ nwRet[1].families = Requested \ nwFail
       /\ (Requested \ nwFail # {}) => nwRet[1].err = {}


(***************************************************************************)
(* More claims about the tracer's pingers and responses.                   *)
(***************************************************************************)

C29_HopsSortedAndStable ==
    \A c \in DOMAIN hpRet :
       LET r == hpRet[c] IN
       /\ \A i, j \in DOMAIN r : i < j => r[i].TTL < r[j].TTL
       /\ \A ttl \in DOMAIN hops :
             Cardinality({i \in DOMAIN r : r[i].TTL = ttl}) = 1
       /\ \A d \in DOMAIN hpRet : \A i \in DOMAIN r, j \in DOMAIN hpRet[d] :
             r[i].TTL = hpRet[d][j].TTL => r[i].id = hpRet[d][j].id


\* C30: handling a Response of kind Timeout changes no hop: received, the
\* RTT samples, the address and the pinger flag of every hop stay as they
\* are and no pinger is started; the probe that timed out stays counted in
\* sent.
C30_TimeoutChangesNoHop ==
    [][(reader.pc = "handle" /\ reader.resp.ResponseType = "Timeout"
          /\ reader'.pc # "handle")
         => (/\ DOMAIN hops' = DOMAIN hops
             /\ \A h \in DOMAIN hops :
                  /\ hops'[h].received = hops[h].received
                  /\ hops'[h].RTTs = hops[h].RTTs
                  /\ hops'[h].ip = hops[h].ip
                  /\ hops'[h].addr = hops[h].addr
                  /\ hops'[h].hasPinger = hops[h].hasPinger
                  /\ hops'[h].sent = hops[h].sent
             /\ pingerSeq' = pingerSeq
             /\ tStarted' = tStarted)]_vars

\* C30 witness: the timeout of the only probe has been handled, and the hop
\* has its probe in sent and nothing else
C30_Witness ==
    /\ tTimeouts > 0
    /\ queue = <<>>
    /\ reader.pc = "read"
    /\ outstandingRequests = <<>>
    /\ Len(tProbes) = 1
    /\ wire = {}
    /\ hops[1].sent = 1
    /\ hops[1].received = 0
    /\ hops[1].ip = NilHop
    /\ ~hops[1].hasPinger


(***************************************************************************)
(* Claims about the behaviour of the whole.                                *)
(***************************************************************************)

\* C31: the queue is first-in first-out: the values are taken from it in the
\* order their Pushes completed (the producer pushes 1, 2, ... one after the
\* other), so a consumer that is alone is returned a before b whenever the
\* Push of a was over before the Push of b began.
C31_FirstInFirstOut ==
    /\ \A i, j \in DOMAIN popped : i < j => popped[i] < popped[j]
    /\ \A i, j \in DOMAIN queue : i < j => queue[i] < queue[j]
    /\ \A i \in DOMAIN popped, j \in DOMAIN queue : popped[i] < queue[j]

\* C31 witness: one consumer, the other never called, has been returned both
\* values, 2 last
C31_Witness ==
    /\ popped = <<1, 2>>
    /\ cons[1].val = 2
    /\ cons[1].pc = "idle"
    /\ cons[2].mode = "none"


\* C32: discovery ends with success only on an echo reply that comes from
\* the target's address: when Discover has returned nil, the response it
\* read last, recorded in the last hop, has the address Discover was called
\* with.
C32_SuccessOnlyFromTarget ==
    (dPc \in {"done", "returned"} /\ dErr = "nil") =>
        /\ dEchoAt = Len(dRoute)
        /\ dRoute[Len(dRoute)] = dDist


\* C33: the address recorded for the hop at TTL i is the source of the
\* response to the probe that was sent with TTL i: every slot of the route
\* is empty or holds the address that answers a probe with its TTL, however
\* late the replies to earlier probes come.
C33_SlotHoldsItsOwnReply ==
    \A i \in DOMAIN dRoute : dRoute[i] \in {NilHop, Reply(i).From}


\* the reader goroutine is in recordAddr's net.LookupAddr for hop k
LookupInProgress(k) ==
    /\ lkTask["reader"] # <<>>
    /\ Head(lkTask["reader"]) = <<"Lookup", HMu(k)>>

\* the goroutine is inside a call and the mutex it needs next is held by the
\* reader goroutine
WaitsForReader(task) ==
    /\ lkTask[task] # <<>>
    /\ Head(lkTask[task])[1] \in {"Lock", "Section"}
    /\ lkOwner[Head(lkTask[task])[2]] = "reader"

\* Run is in pingTarget, before t.hops[ttl] = h and t.sock.Send
InPingTarget ==
    /\ lkTask["Run"] # <<>>
    /\ Head(lkTask["Run"]) = <<"Section", TMu>>

\* the pinger of a hop other than k is in a tick, before t.sock.Send
InOtherPingerTick(k) ==
    /\ lkTask["pinger"] # <<>>
    /\ Head(lkTask["pinger"])[2] # HMu(k)

\* C36: while the reverse name lookup for a hop's address is in progress,
\* no probe send waits for it: neither Run's pingTarget nor the pinger tick
\* of another hop needs a mutex that the goroutine doing the lookup holds.
C36_LookupBlocksNoSend ==
    \A k \in 1..LockHops :
        LookupInProgress(k) =>
            /\ InPingTarget => ~WaitsForReader("Run")
            /\ InOtherPingerTick(k) => ~WaitsForReader("pinger")

\* the part of C36 that holds: the pinger ticks of other hops never wait for
\* the lookup
Aux_LookupBlocksNoOtherPinger ==
    \A k \in 1..LockHops :
        (LookupInProgress(k) /\ InOtherPingerTick(k)) => ~WaitsForReader("pinger")


\* C35: the sample list holds the samples in the order their replies were
\* received, and the accessors leave the hop's state unchanged: no call of
\* Loss, AvgRTT or MedianRTT changes sent, received or the RTTs, the order of
\* the samples included.
C35_AccessorsKeepSamples ==
    /\ [](hsRTTs = hsSamples)
    /\ [][<<hsSent, hsReceived, hsRTTs>>' = <<hsSent, hsReceived, hsRTTs>>]_vars


\* the outstanding requests that are older than the timeout
OlderThanTimeout ==
    {sq \in DOMAIN outstandingRequests :
        now - outstandingRequests[sq].TimeSent > defaultReadTimeout}

\* the places of the queue where the timeout of request req was queued by
\* the step
ReportsOf(req) ==
    {i \in (Len(queue) + 1)..Len(queue') : queue'[i] = TimeoutResponse(req)}

\* C37: a timeout sweep removes exactly the outstanding entries whose age is
\* strictly greater than the timeout and reports each of them exactly once;
\* every entry whose age does not exceed the timeout remains outstanding,
\* unchanged.
C37_SweepTakesExactlyTheExpired ==
    [][nextSweep' # nextSweep =>
          /\ DOMAIN outstandingRequests' = DOMAIN outstandingRequests \ OlderThanTimeout
          /\ \A sq \in DOMAIN outstandingRequests' :
                outstandingRequests'[sq] = outstandingRequests[sq]
          /\ Len(queue') = Len(queue) + Cardinality(OlderThanTimeout)
          /\ SubSeq(queue', 1, Len(queue)) = queue
          /\ \A sq \in OlderThanTimeout :
                Cardinality(ReportsOf(outstandingRequests[sq])) = 1]_vars

\* a sweep has reported one request and left another, whose age was the
\* timeout exactly, outstanding
C37_Witness ==
    /\ now + timeoutInterval = nextSweep
    /\ \E i \in DOMAIN pushLog :
          /\ pushLog[i].at = now
          /\ pushLog[i].resp.ResponseType = "Timeout"
    /\ \E sq \in DOMAIN outstandingRequests :
          now - outstandingRequests[sq].TimeSent = defaultReadTimeout


\* C38: from the start of Run until the context is cancelled, every
\* response the socket makes available through Read is eventually passed to
\* handleResponse, also after a time of silence longer than the read
\* timeout: whenever a response is queued, the reader goroutine comes to
\* handle a response, unless the context is cancelled.
C38_EveryResponseHandled ==
    (Len(queue) > 0 /\ ~tCtxDone) ~> (reader.pc = "handle" \/ tCtxDone)

\* the reader goroutine, once it has returned, is not started again
Aux_ReaderStaysExited ==
    [][reader.pc = "exited" => reader'.pc = "exited"]_vars


\* the helper goroutine runs, and the PopWait call that started it has
\* returned
Orphaned(h) ==
    /\ helpers[h].pc # "unused"
    /\ \/ cons[helpers[h].owner].pc = "idle"
       \/ cons[helpers[h].owner].helper # h

\* C39: every helper goroutine started by a PopWait call terminates once
\* that call has returned, with a value or with the cancellation error: it
\* does not stay blocked on the condition variable or on its channel.
C39_HelpersTerminate ==
    \A h \in Helpers : Orphaned(h) ~> (helpers[h].pc = "unused")

\* a helper whose call has returned and that was woken by a Push stands at
\* its channel send, which nothing will receive
Aux_OrphanBlocksOnSend ==
    \A h \in Helpers :
        (Orphaned(h) /\ helpers[h].pc = "send") => ~ENABLED HelperSend(h)


\* such a helper exists: its call was cancelled, a later Push woke it
Aux_OrphanAtSend ==
    \E h \in Helpers : Orphaned(h) /\ helpers[h].pc = "send"


\* C34: under any interleaving of concurrent Sends with non-zero ttl, each
\* datagram is written with the TTL of its own call: no other Send sets the
\* socket's TTL between a call's setTTL and its WriteTo.
C34_OwnTTLOnTheWire ==
    /\ \A i \in DOMAIN stWire : stWire[i].ttl # 0 => stWire[i].sent = stWire[i].ttl
    /\ \A k \in Senders :
          (stPc[k] = "write" /\ stArg[k] # 0) => stSockTTL = stArg[k]

\* one Send has set its TTL and not yet written while another, called with
\* another ttl, waits for the mutex, and a datagram of an earlier call is out
C34_Witness ==
    /\ stPc[1] = "write"
    /\ stPc[2] = "lock"
    /\ stArg[1] # 0
    /\ stArg[2] # 0
    /\ stArg[1] # stArg[2]
    /\ \E i \in DOMAIN stWire : stWire[i].by = 2 /\ stWire[i].sent = stArg[2]


\* the recorded outcomes of the probe with sequence number sq
OutcomesOf(sq) == {i \in DOMAIN phOutcomes : phOutcomes[i].seq = sq}

\* C40: in pingHop every probe sent leads to at most one recorded outcome,
\* a measurement from its reply or a failed measurement from the timeout
\* sweep, never both; a reply for a sequence number that has timed out or
\* is unknown is discarded; the recorded outcomes never exceed the probes
\* sent.
C40_OneOutcomePerProbe ==
    /\ \A i \in DOMAIN phOutcomes :
          /\ phOutcomes[i].seq \in 1..phSeq
          /\ Cardinality(OutcomesOf(phOutcomes[i].seq)) = 1
          /\ phOutcomes[i].seq \notin DOMAIN phPackets
    /\ Len(phOutcomes) + Cardinality(DOMAIN phPackets) = phSent
    /\ Len(phOutcomes) <= phSent

\* one probe was measured by its reply, a later outcome is a timeout of the
\* sweep, no request is on its way any more, every probe has its outcome,
\* and a response that answers no outstanding probe was read and discarded
C40_Witness ==
    /\ \E i, j \in DOMAIN phOutcomes :
          /\ phOutcomes[i].kind = "reply"
          /\ phOutcomes[j].kind = "timeout"
          /\ i < j
          /\ phOutcomes[j].seq \notin phWire
    /\ phWire = {}
    /\ phStray = MaxStray
    /\ phSent = Len(phOutcomes)


\* no entry of the table is older than two timeouts, so that a sequence
\* number is not sent again (after 65536 sends) while its entry is there
Aux_EntriesAreYoung ==
    \A sq \in DOMAIN phPackets : phNow - phPackets[sq] <= 2 * phTimeout


====
